---- MODULE Spec2Model ----
(***************************************************************************)
(* VLESS-over-WebSocket proxy worker (src/index.js; src/unnamed/part_001   *)
(* is an older variant of the same worker).                                *)
(*                                                                         *)
(* Part I models the frame codec as operators over byte sequences          *)
(* (ProcessProtocolHeader and its helpers), Part II the per-session state  *)
(* machine (ingress writer, outbound dispatcher, remote-to-WebSocket pipe, *)
(* DNS adapter).  Strings are sequences of character codes, byte buffers   *)
(* sequences of 0..255.                                                    *)
(***************************************************************************)
EXTENDS Integers, Sequences, FiniteSets, TLC

\* ------------------------------------------------------------------------
\* Bounds of the model
\* ------------------------------------------------------------------------
MaxClientChunks == 2
MaxRemoteChunks == 2
MaxDispatch == 2
MaxAddonLen == 2

\* ------------------------------------------------------------------------
\* Part I.  Frame codec
\* ------------------------------------------------------------------------
None == "none"

Dot == 46
Colon == 58
Dash == 45
ReplacementChar == 65533

RECURSIVE Flatten(_)
Flatten(ss) == IF ss = <<>> THEN <<>> ELSE Head(ss) \o Flatten(Tail(ss))

RECURSIVE Join(_, _)
Join(parts, sep) ==
  IF parts = <<>> THEN <<>>
  ELSE IF Len(parts) = 1 THEN parts[1]
  ELSE parts[1] \o <<sep>> \o Join(Tail(parts), sep)

\* ArrayBuffer.prototype.slice(a, b): clamps both ends to the buffer.
Slice(buf, a, b) ==
  LET lo == IF a > Len(buf) THEN Len(buf) ELSE a
      hi == IF b > Len(buf) THEN Len(buf) ELSE b
  IN IF hi <= lo THEN <<>> ELSE SubSeq(buf, lo + 1, hi)

\* DataView bounds: getUint8(i) / getUint16(i) raise RangeError past the end.
InRange8(buf, i) == i + 1 <= Len(buf)
InRange16(buf, i) == i + 2 <= Len(buf)
getUint8(buf, i) == buf[i + 1]
getUint16(buf, i) == buf[i + 1] * 256 + buf[i + 2]

HexChar(d) == IF d < 10 THEN 48 + d ELSE 87 + d

RECURSIVE ToString16(_)
ToString16(n) ==
  IF n < 16 THEN <<HexChar(n)>> ELSE ToString16(n \div 16) \o <<HexChar(n % 16)>>

RECURSIVE ToString10(_)
ToString10(n) ==
  IF n < 10 THEN <<48 + n>> ELSE ToString10(n \div 10) \o <<48 + (n % 10)>>

byteToHex(b) == <<HexChar(b \div 16), HexChar(b % 16)>>

unsafeStringify(arr) ==
  Flatten([i \in 1..4 |-> byteToHex(arr[i])]) \o <<Dash>> \o
  Flatten([i \in 1..2 |-> byteToHex(arr[4 + i])]) \o <<Dash>> \o
  Flatten([i \in 1..2 |-> byteToHex(arr[6 + i])]) \o <<Dash>> \o
  Flatten([i \in 1..2 |-> byteToHex(arr[8 + i])]) \o <<Dash>> \o
  Flatten([i \in 1..6 |-> byteToHex(arr[10 + i])])

IsHexChar(c) == (c >= 48 /\ c <= 57) \/ (c >= 97 /\ c <= 102) \/ (c >= 65 /\ c <= 70)

isValidUUID(uuid) ==
  /\ Len(uuid) = 36
  /\ \A i \in 1..36 :
       IF i \in {9, 14, 19, 24} THEN uuid[i] = Dash ELSE IsHexChar(uuid[i])
  /\ uuid[15] \in 49..53
  /\ uuid[20] \in {56, 57, 97, 98, 65, 66}

stringify(arr) ==
  LET uuid == unsafeStringify(arr)
  IN IF ~isValidUUID(uuid) THEN [threw |-> TRUE, value |-> <<>>]
     ELSE [threw |-> FALSE, value |-> uuid]

\* new TextDecoder().decode(bytes), for the byte values the model uses:
\* ASCII bytes decode to themselves, a byte that cannot start a sequence
\* decodes to U+FFFD.
TextDecode(bytes) ==
  [i \in 1..Len(bytes) |-> IF bytes[i] < 128 THEN bytes[i] ELSE ReplacementChar]

\* --- user lookup (index.js) ---------------------------------------------
\* A stored user record: exp_date / exp_time are 0 for the empty string,
\* -1 for text that does not parse as a date, otherwise a point in time.
\* A cache entry is the JSON text of such a record; parses is FALSE for an
\* entry JSON.parse rejects.
UserRec(d, t) == [exp_date |-> d, exp_time |-> t]
CacheEntry(d, t, parses) == [exp_date |-> d, exp_time |-> t, parses |-> parses]
NoUser == [found |-> FALSE, exp_date |-> 0, exp_time |-> 0]
FoundUser(d, t) == [found |-> TRUE, exp_date |-> d, exp_time |-> t]

checkExpiration(expDate, expTime, clock) ==
  IF expDate = 0 \/ expTime = 0 THEN FALSE
  ELSE IF expDate < 0 \/ expTime < 0 THEN FALSE
  ELSE expDate > clock

\* getUserData: key-value cache first, then the database; a database hit is
\* written back to the cache.  Returns the record and the new cache.
getUserData(kvs, dbs, uuid) ==
  IF uuid \in DOMAIN kvs /\ kvs[uuid].parses
  THEN [userData |-> FoundUser(kvs[uuid].exp_date, kvs[uuid].exp_time), kv |-> kvs]
  ELSE IF uuid \notin DOMAIN dbs
       THEN [userData |-> NoUser, kv |-> kvs]
       ELSE [userData |-> FoundUser(dbs[uuid].exp_date, dbs[uuid].exp_time),
             kv |-> [k \in (DOMAIN kvs) \cup {uuid} |->
                       IF k = uuid
                       THEN CacheEntry(dbs[uuid].exp_date, dbs[uuid].exp_time, TRUE)
                       ELSE kvs[k]]]

\* --- header decoding ----------------------------------------------------
HeaderResult(o, m, addr, at, port, raw, ver, udp) ==
  [outcome |-> o, message |-> m, addressRemote |-> addr, addressType |-> at,
   portRemote |-> port, rawDataIndex |-> raw, ProtocolVersion |-> ver,
   isUDP |-> udp]

NoResult == HeaderResult("none", "", <<>>, 0, 0, 0, 0, FALSE)
ErrorResult(m) == HeaderResult("error", m, <<>>, 0, 0, 0, 0, FALSE)
ThrowResult(m) == HeaderResult("throw", m, <<>>, 0, 0, 0, 0, FALSE)

\* src/index.js 1036-1056: the address, by type.
DecodeAddress(buf, addressType, portIndex) ==
  CASE addressType = 1 ->
         [threw |-> FALSE, bad |-> FALSE, len |-> 4, index |-> portIndex + 3,
          value |-> Join([i \in 1..Len(Slice(buf, portIndex + 3, portIndex + 7)) |->
                            ToString10(Slice(buf, portIndex + 3, portIndex + 7)[i])], Dot)]
    [] addressType = 2 ->
         IF ~InRange8(buf, portIndex + 3)
         THEN [threw |-> TRUE, bad |-> FALSE, len |-> 0, index |-> 0, value |-> <<>>]
         ELSE LET n == getUint8(buf, portIndex + 3)
              IN [threw |-> FALSE, bad |-> FALSE, len |-> n, index |-> portIndex + 4,
                  value |-> TextDecode(Slice(buf, portIndex + 4, portIndex + 4 + n))]
    [] addressType = 3 ->
         IF ~InRange16(buf, portIndex + 3 + 14)
         THEN [threw |-> TRUE, bad |-> FALSE, len |-> 0, index |-> 0, value |-> <<>>]
         ELSE [threw |-> FALSE, bad |-> FALSE, len |-> 16, index |-> portIndex + 3,
               value |-> Join([i \in 1..8 |->
                                 ToString16(getUint16(buf, portIndex + 3 + (i - 1) * 2))], Colon)]
    [] OTHER ->
         [threw |-> FALSE, bad |-> TRUE, len |-> 0, index |-> 0, value |-> <<>>]

\* src/index.js 1029-1068 (identical in part_001 1562-1612): everything
\* after authentication.
DecodeRequestWrongOffset(buf, version) ==
  IF ~InRange8(buf, 17) THEN ThrowResult("RangeError")
  ELSE
  LET optLength == getUint8(buf, 17)
      portIndex == 18 + optLength + 1
  IN IF ~InRange8(buf, 18 + optLength) THEN ThrowResult("RangeError")
     ELSE LET command == getUint8(buf, 18 + optLength)
          IN IF command # 1 /\ command # 2 THEN ErrorResult("command is not supported")
             ELSE IF ~InRange16(buf, portIndex) \/ ~InRange8(buf, portIndex + 2)
                  THEN ThrowResult("RangeError")
                  ELSE LET a == DecodeAddress(buf, getUint8(buf, portIndex + 2), portIndex)
                       IN IF a.threw THEN ThrowResult("RangeError")
                          ELSE IF a.bad THEN ErrorResult("invalid addressType")
                          ELSE IF a.value = <<>> THEN ErrorResult("addressValue is empty")
                          ELSE HeaderResult("ok", "", a.value,
                                            getUint8(buf, portIndex + 2),
                                            getUint16(buf, portIndex),
                                            a.index, version, command = 2)

DecodeRequest(buf, version) ==
  IF ~InRange8(buf, 17) THEN ThrowResult("RangeError")
  ELSE
  LET optLength == getUint8(buf, 17)
      portIndex == 18 + optLength + 1
  IN IF ~InRange8(buf, 18 + optLength) THEN ThrowResult("RangeError")
     ELSE LET command == getUint8(buf, 18 + optLength)
          IN IF command # 1 /\ command # 2 THEN ErrorResult("command is not supported")
             ELSE IF ~InRange16(buf, portIndex) \/ ~InRange8(buf, portIndex + 2)
                  THEN ThrowResult("RangeError")
                  ELSE LET a == DecodeAddress(buf, getUint8(buf, portIndex + 2), portIndex)
                       IN IF a.threw THEN ThrowResult("RangeError")
                          ELSE IF a.bad THEN ErrorResult("invalid addressType")
                          ELSE IF a.value = <<>> THEN ErrorResult("addressValue is empty")
                          ELSE HeaderResult("ok", "", a.value,
                                            getUint8(buf, portIndex + 2),
                                            getUint16(buf, portIndex),
                                            a.index + a.len, version, command = 2)

\* src/index.js 1016-1069.  Returns the result and the cache after the lookup.
ProcessProtocolHeader(protocolBuffer, kvs, dbs, clock) ==
  IF Len(protocolBuffer) < 24
  THEN [res |-> ErrorResult("invalid data"), kv |-> kvs]
  ELSE LET version == getUint8(protocolBuffer, 0)
           s == stringify(Slice(protocolBuffer, 1, 17))
       IN IF s.threw THEN [res |-> ThrowResult("TypeError"), kv |-> kvs]
          ELSE LET g == getUserData(kvs, dbs, s.value)
               IN IF ~g.userData.found
                     \/ ~checkExpiration(g.userData.exp_date, g.userData.exp_time, clock)
                  THEN [res |-> ErrorResult("invalid or expired user"), kv |-> g.kv]
                  ELSE [res |-> DecodeRequest(protocolBuffer, version), kv |-> g.kv]

\* src/unnamed/part_001 1540-1612: the accepted ids are the configured
\* comma-separated list (userIDs is that list after split and trim).
ProcessProtocolHeader001(protocolBuffer, userIDs) ==
  IF Len(protocolBuffer) < 24 THEN ErrorResult("invalid data")
  ELSE LET version == getUint8(protocolBuffer, 0)
           s == stringify(Slice(protocolBuffer, 1, 17))
       IN IF s.threw THEN ThrowResult("TypeError")
          ELSE IF ~(\E i \in 1..Len(userIDs) : s.value = userIDs[i])
               THEN ErrorResult("invalid user")
               ELSE DecodeRequest(protocolBuffer, version)


\* --- the DNS splitter (createDnsPipeline.transform, src/index.js 1243-1251)
\* chunk.slice clamps, so a packet cut short by the end of the chunk is
\* emitted with the bytes that are there; a 1-byte length prefix makes
\* DataView.getUint16 raise.
RECURSIVE DnsSplitFrom(_, _)
DnsSplitFrom(chunk, index) ==
  IF index >= Len(chunk) THEN [threw |-> FALSE, packets |-> <<>>]
  ELSE LET lengthBuffer == Slice(chunk, index, index + 2)
       IN IF ~InRange16(lengthBuffer, 0) THEN [threw |-> TRUE, packets |-> <<>>]
          ELSE LET udpPacketLength == getUint16(lengthBuffer, 0)
                   udpData == Slice(chunk, index + 2, index + 2 + udpPacketLength)
                   rest == DnsSplitFrom(chunk, index + 2 + udpPacketLength)
               IN [threw |-> rest.threw, packets |-> <<udpData>> \o rest.packets]

DnsSplitWhole(chunk) == [threw |-> FALSE, packets |-> <<Slice(chunk, 2, Len(chunk))>>]

DnsSplit(chunk) == DnsSplitFrom(chunk, 0)

\* --- the SOCKS5 dialer (socks5Connect, src/index.js 1299-1353 and
\* src/unnamed/part_001 1773-1850) --------------------------------------
\* String.prototype.split(sep)
RECURSIVE split(_, _)
split(str, sep) ==
  IF \A i \in 1..Len(str) : str[i] # sep THEN <<str>>
  ELSE LET k == CHOOSE i \in 1..Len(str) :
                  str[i] = sep /\ \A j \in 1..(i - 1) : str[j] # sep
       IN <<SubSeq(str, 1, k - 1)>> \o split(SubSeq(str, k + 1, Len(str)), sep)

\* The value of a digit of the given radix, -1 for any other character.
RadixDigit(c, radix) ==
  LET v == IF c >= 48 /\ c <= 57 THEN c - 48
           ELSE IF c >= 97 /\ c <= 122 THEN c - 87
           ELSE IF c >= 65 /\ c <= 90 THEN c - 55
           ELSE -1
  IN IF v < radix THEN v ELSE -1

\* parseInt(str, radix): the value of the longest prefix of digits; NaN when
\* there is none.
RECURSIVE parseIntFrom(_, _, _, _)
parseIntFrom(str, radix, i, acc) ==
  IF i > Len(str) \/ RadixDigit(str[i], radix) < 0
  THEN [nan |-> i = 1, value |-> acc]
  ELSE parseIntFrom(str, radix, i + 1, acc * radix + RadixDigit(str[i], radix))

parseInt(str, radix) == parseIntFrom(str, radix, 1, 0)

\* Number(str) for a string of decimal digits; Number('') is 0.
NumberOf(str) ==
  IF str = <<>> THEN [nan |-> FALSE, value |-> 0]
  ELSE IF \A i \in 1..Len(str) : RadixDigit(str[i], 10) >= 0 THEN parseInt(str, 10)
  ELSE [nan |-> TRUE, value |-> 0]

\* An element stored in a Uint8Array: NaN becomes 0, a number is taken
\* modulo 256.
ToUint8(n) == IF n.nan THEN 0 ELSE n.value % 256

\* new TextEncoder().encode(str), for the characters TextDecode produces
TextEncode(str) ==
  Flatten([i \in 1..Len(str) |-> IF str[i] < 128 THEN <<str[i]>> ELSE <<239, 191, 189>>])

\* DSTADDR (src/index.js 1325-1343); <<>> for an address type the switch
\* does not know
DSTADDR(addressType, addressRemote) ==
  CASE addressType = 1 ->
         <<1>> \o [i \in 1..Len(split(addressRemote, Dot)) |->
                     ToUint8(NumberOf(split(addressRemote, Dot)[i]))]
    [] addressType = 2 ->
         <<3, Len(addressRemote) % 256>> \o TextEncode(addressRemote)
    [] addressType = 3 ->
         <<4>> \o Flatten([i \in 1..Len(split(addressRemote, Colon)) |->
                             LET x == split(addressRemote, Colon)[i]
                             IN <<ToUint8(parseInt(Slice(x, 0, 2), 16)),
                                  ToUint8(parseInt(Slice(x, 2, Len(x)), 16))>>])
    [] OTHER -> <<>>

\* socksRequest (src/index.js 1345)
socksRequest(addressType, addressRemote, portRemote) ==
  <<5, 1, 0>> \o DSTADDR(addressType, addressRemote)
    \o <<(portRemote \div 256) % 256, portRemote % 256>>

\* authRequest (src/index.js 1313-1319)
authRequest(creds) ==
  <<1, Len(creds.username) % 256>> \o TextEncode(creds.username)
    \o <<Len(creds.password) % 256>> \o TextEncode(creds.password)

\* writer.releaseLock() / reader.releaseLock()
releaseLockKept(locked) == locked

releaseLock(locked) == FALSE

\* What a call of socks5Connect comes to: outcome is "stream" (the socket is
\* returned), "throw" (an Error with the message in error) or "undefined"
\* (part_001 logs and returns nothing); the writes made, the CONNECT request
\* among them, the replies read, and whether the halves of the socket are
\* still locked by the dialer's writer and reader.
DialResult(outcome, error, written, request, replies, locked) ==
  [outcome |-> outcome, error |-> error, written |-> written, request |-> request,
   replies |-> replies, writableLocked |-> locked, readableLocked |-> locked]

\* A failure of the dialer: index.js throws, part_001 returns undefined.
DialFailure(variant, message, written, request, replies) ==
  IF variant = "index"
  THEN DialResult("throw", message, written, request, replies, TRUE)
  ELSE DialResult("undefined", "", written, request, replies, TRUE)

\* The end of socks5Connect from the switch on (src/index.js 1325-1352),
\* after the writes `written` and the replies `replies`, on the reply
\* `reply` to the CONNECT request.
socks5Request(variant, addressType, addressRemote, portRemote, written, replies, reply) ==
  LET request == socksRequest(addressType, addressRemote, portRemote)
  IN IF addressType \notin {1, 2, 3}
     THEN DialFailure(variant, "Invalid addressType for SOCKS5", written, <<>>, replies)
     ELSE IF reply[2] # 0
     THEN DialFailure(variant, "Failed to open SOCKS5 connection.",
                      Append(written, request), request, Append(replies, reply))
     ELSE DialResult("stream", "", Append(written, request), request,
                     Append(replies, reply), releaseLock(TRUE))

\* socks5Connect(addressType, addressRemote, portRemote, log, parsedSocks5Addr)
\* with the credentials of parsedSocks5Addr, against a server that answers
\* the greeting with method, the authentication with auth and the CONNECT
\* request with reply.
socks5Connect(variant, addressType, addressRemote, portRemote, creds, method, auth, reply) ==
  LET greeting == <<5, 2, 0, 2>>
  IN IF method[1] # 5 \/ method[2] = 255
     THEN DialFailure(variant, "SOCKS5 server connection failed.",
                      <<greeting>>, <<>>, <<method>>)
     ELSE IF method[2] = 2
     THEN IF creds.username = <<>> \/ creds.password = <<>>
          THEN DialFailure(variant, "SOCKS5 auth credentials not provided.",
                           <<greeting>>, <<>>, <<method>>)
          ELSE IF auth[1] # 1 \/ auth[2] # 0
          THEN DialFailure(variant, "SOCKS5 authentication failed.",
                           <<greeting, authRequest(creds)>>, <<>>, <<method, auth>>)
          ELSE socks5Request(variant, addressType, addressRemote, portRemote,
                             <<greeting, authRequest(creds)>>, <<method, auth>>, reply)
     ELSE socks5Request(variant, addressType, addressRemote, portRemote,
                        <<greeting>>, <<method>>, reply)

\* --- the early-data decoder (base64ToArrayBuffer, src/index.js 1179-1192) --
\* Strings are sequences of character codes.  The value of a character in
\* the standard base64 alphabet, -1 for any other character.
B64Value(c) ==
  IF c >= 65 /\ c <= 90 THEN c - 65
  ELSE IF c >= 97 /\ c <= 122 THEN c - 71
  ELSE IF c >= 48 /\ c <= 57 THEN c + 4
  ELSE IF c = 43 THEN 62
  ELSE IF c = 47 THEN 63
  ELSE -1

\* `.replace(/-/g, '+').replace(/_/g, '/')`
UrlSafeToStandardNone(str) == str

UrlSafeToStandard(str) ==
  [i \in 1..Len(str) |-> IF str[i] = 45 THEN 43 ELSE IF str[i] = 95 THEN 47 ELSE str[i]]

\* atob: padding is removed from a string whose length is a multiple of 4, a
\* length of 1 modulo 4 or a character outside the alphabet raises, and the
\* bits left over after the last whole byte are dropped.
atob(str) ==
  LET n0 == Len(str)
      pad == IF n0 % 4 = 0 /\ n0 >= 2 /\ str[n0] = 61
             THEN (IF str[n0 - 1] = 61 THEN 2 ELSE 1)
             ELSE 0
      data == SubSeq(str, 1, n0 - pad)
      n == Len(data)
      v == [i \in 1..n |-> B64Value(data[i])]
  IN IF n % 4 = 1 \/ \E i \in 1..n : v[i] < 0
     THEN [threw |-> TRUE, value |-> <<>>]
     ELSE [threw |-> FALSE,
           value |-> [k \in 1..((n * 6) \div 8) |->
                        LET bit == 8 * (k - 1)
                            idx == bit \div 6
                            off == bit % 6
                            pair == v[idx + 1] * 64 + v[idx + 2]
                        IN (pair \div (2 ^ (4 - off))) % 256]]

base64ToArrayBuffer(base64Str) ==
  IF base64Str = <<>> THEN [earlyData |-> <<>>, present |-> FALSE, error |-> FALSE]
  ELSE LET r == atob(UrlSafeToStandard(base64Str))
       IN IF r.threw THEN [earlyData |-> <<>>, present |-> FALSE, error |-> TRUE]
          ELSE [earlyData |-> r.value, present |-> TRUE, error |-> FALSE]

\* ------------------------------------------------------------------------
\* Inputs: requests on the wire, users, configuration
\* ------------------------------------------------------------------------
\* ver(1) uuid(16) L(1) addons cmd(1) port(2) atyp(1) addr payload
EncodeRequest(ver, uuid, optLen, addons, cmd, port, atyp, addrField, payload) ==
  <<ver>> \o uuid \o <<optLen>> \o addons \o <<cmd>> \o
  <<port \div 256, port % 256>> \o <<atyp>> \o addrField \o payload

Request(ver, uuid, addons, cmd, port, atyp, addr, payload, cut) ==
  [ver |-> ver, uuid |-> uuid, addons |-> addons, cmd |-> cmd, port |-> port,
   atyp |-> atyp, addr |-> addr, payload |-> payload, cut |-> cut]

NoRequest == Request(0, <<>>, <<>>, 0, 0, 0, <<>>, <<>>, 0)

AddrField(atyp, addr) == IF atyp = 2 THEN <<Len(addr)>> \o addr ELSE addr

UuidOk == <<16, 232, 148, 218, 97, 177, 73, 152, 172, 43, 233, 204, 182, 175, 157, 48>>
UuidExpired == <<211, 66, 209, 30, 212, 36, 69, 131, 179, 110, 82, 74, 177, 240, 175, 164>>
UuidEdge == <<211, 66, 209, 30, 212, 36, 69, 131, 179, 110, 82, 74, 177, 240, 175, 165>>
UuidCached == <<10, 11, 12, 13, 1, 2, 67, 4, 133, 6, 7, 8, 9, 10, 11, 12>>
UuidUnknown == <<0, 0, 0, 0, 0, 0, 64, 0, 128, 0, 0, 0, 0, 0, 0, 0>>
UuidBadVersion == <<0, 0, 0, 0, 0, 0, 0, 0, 128, 0, 0, 0, 0, 0, 0, 0>>
UuidBadVariant == <<0, 0, 0, 0, 0, 0, 64, 0, 0, 0, 0, 0, 0, 0, 0, 0>>

\* The same ids as the text stored in the users table and the cache.
StrOk == <<49, 48, 101, 56, 57, 52, 100, 97, 45, 54, 49, 98, 49, 45, 52, 57, 57, 56, 45, 97, 99, 50, 98, 45, 101, 57, 99, 99, 98, 54, 97, 102, 57, 100, 51, 48>>
StrExpired == <<100, 51, 52, 50, 100, 49, 49, 101, 45, 100, 52, 50, 52, 45, 52, 53, 56, 51, 45, 98, 51, 54, 101, 45, 53, 50, 52, 97, 98, 49, 102, 48, 97, 102, 97, 52>>
StrEdge == <<100, 51, 52, 50, 100, 49, 49, 101, 45, 100, 52, 50, 52, 45, 52, 53, 56, 51, 45, 98, 51, 54, 101, 45, 53, 50, 52, 97, 98, 49, 102, 48, 97, 102, 97, 53>>
StrCached == <<48, 97, 48, 98, 48, 99, 48, 100, 45, 48, 49, 48, 50, 45, 52, 51, 48, 52, 45, 56, 53, 48, 54, 45, 48, 55, 48, 56, 48, 57, 48, 97, 48, 98, 48, 99>>

Now == 5

InitDB == (StrOk :> UserRec(9, 1)) @@ (StrExpired :> UserRec(3, 1)) @@
          (StrEdge :> UserRec(Now, 1))
InitKV == (StrCached :> CacheEntry(9, 1, TRUE)) @@ (StrExpired :> CacheEntry(9, 1, FALSE))

ConfiguredUserIDs == <<StrOk, StrCached>>

\* Chunks a client sends in the session model.
HdrTcp == EncodeRequest(1, UuidOk, 0, <<>>, 1, 443, 1, <<1, 2, 3, 4>>, <<7>>)
HdrDns == EncodeRequest(1, UuidOk, 0, <<>>, 2, 53, 1, <<1, 1, 1, 1>>, <<0, 1, 9>>)
HdrUdp80 == EncodeRequest(1, UuidOk, 0, <<>>, 2, 80, 1, <<1, 1, 1, 1>>, <<0, 1, 9>>)
HdrBadUser == EncodeRequest(1, UuidUnknown, 0, <<>>, 1, 443, 1, <<1, 2, 3, 4>>, <<7>>)
HdrBadUuid == EncodeRequest(1, UuidBadVersion, 0, <<>>, 1, 443, 1, <<1, 2, 3, 4>>, <<7>>)
DataChunk == <<0, 1, 5>>

\* What a client puts in Sec-WebSocket-Protocol: URL-safe base64, unpadded.
B64UrlChar(val) ==
  IF val <= 25 THEN 65 + val
  ELSE IF val <= 51 THEN 71 + val
  ELSE IF val <= 61 THEN val - 4
  ELSE IF val = 62 THEN 45
  ELSE 95

Base64UrlEncode(bytes) ==
  [j \in 1..((8 * Len(bytes) + 5) \div 6) |->
     LET bit == 6 * (j - 1)
         idx == bit \div 8
         off == bit % 8
         lo == IF idx + 2 <= Len(bytes) THEN bytes[idx + 2] ELSE 0
         pair == bytes[idx + 1] * 256 + lo
     IN B64UrlChar((pair \div (2 ^ (10 - off))) % 64)]

\* A TCP request whose encoding contains both '-' and '_'.
HdrTcpEarly == EncodeRequest(1, UuidOk, 0, <<>>, 1, 443, 1, <<1, 2, 3, 4>>, <<62, 255>>)

\* "!" is not a base64 character.
BadEarlyDataHeader == <<65, 33, 65, 65>>

\* Any of them can be the first chunk of a session; the later chunks are
\* drawn from LaterChunks (a later chunk that is parsed as a header and
\* rejected fails the writer the same way whatever the reason).
FirstChunks == {HdrTcp, HdrDns, HdrUdp80, HdrBadUser, HdrBadUuid, DataChunk}
LaterChunks == {HdrTcp, HdrDns, DataChunk}
ClientChunks == FirstChunks \cup LaterChunks


\* ------------------------------------------------------------------------
\* Part II.  One session (ProtocolOverWSHandler, src/index.js 926-1014)
\* ------------------------------------------------------------------------
VARIABLES
  hreq,            \* codec check: the request fields the buffer was built from
  hbuf,            \* codec check: the buffer handed to ProcessProtocolHeader
  hres,            \* codec check: result of ProcessProtocolHeader (index.js)
  hres001,         \* codec check: result of ProcessProtocolHeader (part_001)
  closeLog,        \* close check: the calls of safeCloseWebSocket made so far
  dialLog,         \* dialer check: the calls of socks5Connect made so far
  earlyDataHeader, \* the request's Sec-WebSocket-Protocol header ("" if absent)
  config,          \* requestConfig: socks5Relay, enableSocks
  kv,              \* env.USER_KV
  db,              \* env.DB users table
  lookups,         \* the getUserData calls made by sessions
  admin,           \* the admin delete requests
  wsState,         \* webSocket.readyState
  inState,         \* readableWebSocketStream: readable, closed, errored, cancelled
  inQ,             \* chunks enqueued by the message listener, not yet written
  sent,            \* number of chunks the client has sent
  firstChunk,      \* the first chunk of the session (<<>> before it exists)
  wPc,             \* ingress writer: idle, parse, fwd, dns, failed, dead, closed, aborted
  wChunk,          \* chunk the ingress writer is working on
  wSeq,            \* arrival number of that chunk (1 for the first chunk)
  wSock,           \* socket whose writer the ingress writer holds
  wErr,            \* why the ingress writer failed
  udpStreamWriter, \* TRUE once the DNS pipeline's writer is installed
  slot,            \* remoteSocketWapper.value: 0 is null, else an index of socks
  socks,           \* the streams opened by connectAndWrite
  tasks,           \* the HandleTCPOutBound invocations
  dns,             \* the DNS pipeline
  frames,          \* frames passed to webSocket.send
  dohRequests,     \* bodies POSTed to the resolver
  parseCount,      \* number of ProcessProtocolHeader invocations
  retryCount       \* number of retry() invocations

vars == <<hreq, hbuf, hres, hres001, closeLog, dialLog, earlyDataHeader, config, kv, db, lookups, admin, wsState, inState, inQ, sent,
          firstChunk, wPc,
          wChunk, wSeq, wSock, wErr, udpStreamWriter, slot, socks, tasks, dns, frames,
          dohRequests, parseCount, retryCount>>

codecVars == <<hreq, hbuf, hres, hres001, closeLog, dialLog, earlyDataHeader>>
userVars == <<kv, db, lookups, admin>>
ingressVars == <<inState, inQ, sent, firstChunk, wPc, wChunk, wSeq, wSock, wErr>>
outVars == <<udpStreamWriter, slot, socks, tasks, dns, frames, dohRequests,
             parseCount, retryCount>>

\* The body of safeCloseWebSocket's try block (src/index.js 1196-1201) on a
\* socket in state readyState whose close() throws or not: close() is called
\* only when OPEN or CLOSING; a close() that returns leaves the socket
\* CLOSING, one that throws leaves it as it was.
safeCloseWebSocketUncaught(readyState, closeThrows) ==
  LET closeCalled == readyState \in {"OPEN", "CLOSING"}
  IN [closeCalled |-> closeCalled,
      raised |-> closeCalled /\ closeThrows,
      readyState |-> IF closeCalled /\ ~closeThrows THEN "CLOSING" ELSE readyState]

\* safeCloseWebSocket (src/index.js 1194-1205): the catch swallows whatever
\* the try block raised.
safeCloseWebSocketCall(readyState, closeThrows) ==
  [safeCloseWebSocketUncaught(readyState, closeThrows) EXCEPT !.raised = FALSE]

\* safeCloseWebSocket on the session's accepted WebSocket, whose close()
\* returns normally: the state it leaves the socket in.
safeCloseWebSocket(ws) == safeCloseWebSocketCall(ws, FALSE).readyState

\* MakeReadableWebSocketStream.cancel (src/index.js 1139-1142)
cancelNoClose(ws) == ws

cancel(ws) == safeCloseWebSocket(ws)

\* `if (hasError) { controller.error(message); return; }` (src/index.js 970-973)
hasErrorIgnored(res) == FALSE

hasError(res) == res.outcome = "error"

\* `remoteSocket.value = tcpSocket` (src/index.js 1091)
BindOnlyIfEmpty(current, tcpSocket) == IF current = 0 THEN tcpSocket ELSE current

Bind(current, tcpSocket) == tcpSocket

\* connect() / socks5Connect() result as connectAndWrite holds it right after
\* `tcpSocket.writable.getWriter()`: the writable is locked until the initial
\* payload has been written.
NewSocketUnlocked(via) ==
  [via |-> via, locked |-> FALSE, written |-> <<>>, rstate |-> "open", delivered |-> 0]

\* One write to a remote stream: the bytes, and the arrival number of the
\* client chunk they came from.
Written(seq, data) == [seq |-> seq, data |-> data]

NewSocket(via) ==
  [via |-> via, locked |-> TRUE, written |-> <<>>, rstate |-> "open", delivered |-> 0]

\* The dial connectAndWrite(address, port, socks) makes (src/index.js
\* 1082-1090): through socks5Connect when config.socks5Relay is set or the
\* caller asks for it, otherwise connect(); to the address and port given.
connectAndWrite(cfg, address, port, socksArg) ==
  [via |-> IF cfg.socks5Relay THEN "socks5" ELSE IF socksArg THEN "socks5" ELSE "direct",
   host |-> address, port |-> port]

\* The dial of retry() (src/index.js 1099-1106); `a || b` takes b when a is
\* the empty string or 0
retry(cfg, addressRemote, portRemote) ==
  IF cfg.enableSocks
  THEN connectAndWrite(cfg, addressRemote, portRemote, TRUE)
  ELSE connectAndWrite(cfg,
                       IF cfg.proxyIP = <<>> THEN addressRemote ELSE cfg.proxyIP,
                       IF cfg.proxyPort = 0 THEN portRemote ELSE cfg.proxyPort,
                       FALSE)

NewTask(res, payload, seq) ==
  [phase |-> "primary", pc |-> "socks", sock |-> 0, payload |-> payload, seq |-> seq,
   addressRemote |-> res.addressRemote, portRemote |-> res.portRemote,
   dials |-> <<connectAndWrite(config, res.addressRemote, res.portRemote, FALSE)>>,
   ver |-> res.ProtocolVersion, hasIncomingData |-> FALSE, header |-> TRUE,
   retry |-> TRUE, pending |-> <<>>, armed |-> FALSE, fired |-> FALSE]

\* The Response of a fetch whose body is being relayed: its HTTP status and
\* its body; NoResp while there is none.
NoResp == [status |-> 0, body |-> <<>>]

NoDns == [active |-> FALSE, isHeaderSent |-> FALSE, queue |-> <<>>, pc |-> "idle",
          pkt |-> <<>>, ver |-> 0, failedFetches |-> 0, resp |-> NoResp]

FrameNoPayload(src, hdr, ver, data) == [src |-> src, hdr |-> hdr, ver |-> ver, data |-> <<>>]

Frame(src, hdr, ver, data) == [src |-> src, hdr |-> hdr, ver |-> ver, data |-> data]

\* `new Uint8Array([ProtocolVersion[0], 0])` (src/index.js 975)
vlessResponseHeader(ver) == <<ver, 0>>

\* The bytes handed to webSocket.send for a frame: the response header, when
\* the frame carries it, followed by the data (src/index.js 1155-1158).
dataToSend(f) == IF f.hdr THEN vlessResponseHeader(f.ver) \o f.data ELSE f.data

LongAnswerPad == 300

\* The i-th chunk read from stream s.
RemoteData(s, i) == <<100 + 10 * s + i>>

\* The resolver's answer to a query (`await resp.arrayBuffer()`): it names the
\* query, and the answer to a two-byte query is longer than 255 bytes.
DnsAnswer(pkt) ==
  <<200>> \o pkt \o (IF Len(pkt) = 2 THEN [i \in 1..LongAnswerPad |-> 0] ELSE <<>>)

\* `new Uint8Array([(udpSize >> 8) & 0xff, udpSize & 0xff])` (src/index.js 1266)
udpSizeBuffer(udpSize) == <<(udpSize \div 256) % 256, udpSize % 256>>

\* The fallback relay of the configuration: `proxyHost` and `proxyPort` of
\* Config.fromEnv (src/index.js 696-701), here "nima" and 8443.
FallbackHost == <<110, 105, 109, 97>>

FallbackPort == 8443

\* The headers a session can start with: none, the encoding of a chunk, and
\* one that does not decode.
EarlyChunks == {HdrTcpEarly}

EarlyDataHeaders == {<<>>, BadEarlyDataHeader} \cup {Base64UrlEncode(c) : c \in EarlyChunks}

Init ==
  /\ hreq = NoRequest /\ hbuf = <<>> /\ hres = NoResult /\ hres001 = NoResult
  /\ closeLog = <<>> /\ dialLog = <<>>
  /\ config \in [socks5Relay : BOOLEAN, enableSocks : BOOLEAN,
                  proxyIP : {FallbackHost}, proxyPort : {FallbackPort}]
  /\ kv = InitKV /\ db = InitDB /\ lookups = <<>> /\ admin = <<>>
  /\ wsState = "OPEN"
  /\ earlyDataHeader \in EarlyDataHeaders
  /\ LET decoded == base64ToArrayBuffer(earlyDataHeader)
     IN IF decoded.error
        THEN inState = "errored" /\ inQ = <<>> /\ sent = 0 /\ firstChunk = <<>>
        ELSE IF decoded.present
        THEN /\ inState = "readable" /\ inQ = <<decoded.earlyData>> /\ sent = 1
             /\ firstChunk = decoded.earlyData
        ELSE inState = "readable" /\ inQ = <<>> /\ sent = 0 /\ firstChunk = <<>>
  /\ wPc = "idle" /\ wChunk = <<>> /\ wSeq = 0 /\ wSock = 0 /\ wErr = None
  /\ udpStreamWriter = FALSE /\ slot = 0 /\ socks = <<>> /\ tasks = <<>>
  /\ dns = NoDns /\ frames = <<>> /\ dohRequests = <<>>
  /\ parseCount = 0 /\ retryCount = 0

\* The high-water mark of readableWebSocketStream: `new ReadableStream({...})`
\* is given no queuing strategy, so it is the default of 1 chunk
\* (src/index.js 1123).  controller.desiredSize is this minus the queue.
HighWaterMark == 1

\* --- the WebSocket and its listeners (MakeReadableWebSocketStream) -------
\* 'message' listener: controller.enqueue(event.data)
ClientSend(c) ==
  /\ wsState = "OPEN" /\ inState = "readable" /\ sent < MaxClientChunks
  /\ c \in (IF sent = 0 THEN FirstChunks ELSE LaterChunks)
  /\ inQ' = Append(inQ, c) /\ sent' = sent + 1
  /\ firstChunk' = IF sent = 0 THEN c ELSE firstChunk
  /\ UNCHANGED <<codecVars, config, userVars, wsState, inState, wPc, wChunk, wSeq, wSock,
                 wErr, outVars>>

\* the peer closes: 'close' listener runs safeCloseWebSocket, controller.close()
ClientClose ==
  /\ wsState = "OPEN"
  /\ wsState' = "CLOSED"
  /\ inState' = IF inState = "readable" THEN "closed" ELSE inState
  /\ UNCHANGED <<codecVars, config, userVars, inQ, sent, firstChunk, wPc, wChunk, wSeq, wSock, wErr,
                 outVars>>

\* the close started by safeCloseWebSocket completes; 'close' listener runs
WsCloseComplete ==
  /\ wsState = "CLOSING"
  /\ wsState' = "CLOSED"
  /\ inState' = IF inState = "readable" THEN "closed" ELSE inState
  /\ UNCHANGED <<codecVars, config, userVars, inQ, sent, firstChunk, wPc, wChunk, wSeq, wSock, wErr,
                 outVars>>

\* 'error' listener: controller.error(err); the failed connection is closed
WsError ==
  /\ wsState = "OPEN" /\ inState = "readable"
  /\ wsState' = "CLOSED"
  /\ inState' = "errored" /\ inQ' = <<>>
  /\ UNCHANGED <<codecVars, config, userVars, sent, firstChunk, wPc, wChunk, wSeq, wSock, wErr, outVars>>

\* --- the ingress writer (src/index.js 944-1000) --------------------------
\* write(chunk) up to its first await
WriteStart ==
  /\ wPc = "idle" /\ inQ # <<>> /\ inState \in {"readable", "closed"}
  /\ inQ' = Tail(inQ) /\ wChunk' = Head(inQ) /\ wSeq' = sent - Len(inQ) + 1
  /\ IF udpStreamWriter
     THEN wPc' = "dns" /\ wErr' = wErr /\ wSock' = wSock /\ socks' = socks
     ELSE IF slot # 0
          THEN IF socks[slot].locked
               THEN \* getWriter() on a locked writable raises TypeError
                    wPc' = "failed" /\ wErr' = "locked" /\ wSock' = wSock /\ socks' = socks
               ELSE /\ wPc' = "fwd" /\ wErr' = wErr /\ wSock' = slot
                    /\ socks' = [socks EXCEPT ![slot].locked = TRUE]
          ELSE wPc' = "parse" /\ wErr' = wErr /\ wSock' = wSock /\ socks' = socks
  /\ UNCHANGED <<codecVars, config, userVars, wsState, inState, sent, firstChunk, udpStreamWriter,
                 slot, tasks, dns, frames, dohRequests, parseCount, retryCount>>

\* writer.write(chunk) to the bound stream settles
FwdDone ==
  /\ wPc = "fwd"
  /\ socks' = [socks EXCEPT ![wSock].written = Append(@, Written(wSeq, wChunk)),
                            ![wSock].locked = FALSE]
  /\ wPc' = "idle"
  /\ UNCHANGED <<codecVars, config, userVars, wsState, inState, inQ, sent, firstChunk, wChunk, wSeq, wSock,
                 wErr, udpStreamWriter, slot, tasks, dns, frames, dohRequests,
                 parseCount, retryCount>>

FwdFail ==
  /\ wPc = "fwd" /\ socks[wSock].rstate # "open"
  /\ wPc' = "failed" /\ wErr' = "remote"
  /\ UNCHANGED <<codecVars, config, userVars, wsState, inState, inQ, sent, firstChunk, wChunk, wSeq, wSock,
                 outVars>>

\* ProcessProtocolHeader returns; the rest of write(chunk) including the
\* synchronous start of HandleTCPOutBound / connectAndWrite
ParseDone ==
  /\ wPc = "parse"
  /\ LET r == ProcessProtocolHeader(wChunk, kv, db, Now)
         res == r.res
         rawClientData == Slice(wChunk, res.rawDataIndex, Len(wChunk))
     IN /\ kv' = r.kv
        /\ parseCount' = parseCount + 1
        /\ IF res.outcome = "throw"
           THEN /\ wPc' = "failed" /\ wErr' = "parse-exception"
                /\ UNCHANGED <<wChunk, udpStreamWriter, slot, socks, tasks, dns>>
           ELSE IF hasError(res)
           THEN /\ wPc' = "failed" /\ wErr' = "header"
                /\ UNCHANGED <<wChunk, udpStreamWriter, slot, socks, tasks, dns>>
           ELSE IF res.isUDP
           THEN IF res.portRemote = 53
                THEN /\ dns' = [NoDns EXCEPT !.active = TRUE, !.ver = res.ProtocolVersion]
                     /\ udpStreamWriter' = TRUE
                     /\ wPc' = "dns" /\ wChunk' = rawClientData /\ wErr' = wErr
                     /\ UNCHANGED <<slot, socks, tasks>>
                ELSE /\ wPc' = "failed" /\ wErr' = "header"
                     /\ UNCHANGED <<wChunk, udpStreamWriter, slot, socks, tasks, dns>>
           ELSE /\ Len(tasks) < MaxDispatch
                /\ wPc' = "idle" /\ wErr' = wErr
                /\ IF NewTask(res, rawClientData, wSeq).dials[1].via = "socks5"
                   THEN /\ tasks' = Append(tasks, NewTask(res, rawClientData, wSeq))
                        /\ UNCHANGED <<slot, socks>>
                   ELSE /\ socks' = Append(socks, NewSocket("direct"))
                        /\ slot' = Bind(slot, Len(socks) + 1)
                        /\ tasks' = Append(tasks, [NewTask(res, rawClientData, wSeq) EXCEPT
                                                     !.pc = "write", !.sock = Len(socks) + 1])
                /\ UNCHANGED <<wChunk, udpStreamWriter, dns>>
  /\ UNCHANGED <<codecVars, config, db, lookups, admin, wsState, inState, inQ, sent, firstChunk, wSeq, wSock,
                 frames, dohRequests, retryCount>>

\* udpStreamWriter.write(chunk): the splitter's transform runs once the DoH
\* writer has taken the packets of the previous chunk
DnsWrite ==
  /\ wPc = "dns" /\ dns.queue = <<>>
  /\ LET sp == DnsSplit(wChunk)
     IN IF sp.threw
        THEN wPc' = "failed" /\ wErr' = "dns-exception" /\ dns' = [dns EXCEPT !.active = FALSE]
        ELSE wPc' = "idle" /\ wErr' = wErr /\ dns' = [dns EXCEPT !.queue = sp.packets]
  /\ UNCHANGED <<codecVars, config, userVars, wsState, inState, inQ, sent, firstChunk, wChunk, wSeq, wSock,
                 udpStreamWriter, slot, socks, tasks, frames, dohRequests, parseCount,
                 retryCount>>

\* pipeTo sees the writable errored: it cancels the readable source
IngressCancel ==
  /\ wPc = "failed"
  /\ wPc' = "dead"
  /\ IF inState = "readable" \/ (inState = "closed" /\ inQ # <<>>)
     THEN wsState' = cancel(wsState) /\ inState' = "cancelled" /\ inQ' = <<>>
     ELSE UNCHANGED <<wsState, inState, inQ>>
  /\ UNCHANGED <<codecVars, config, userVars, sent, firstChunk, wChunk, wSeq, wSock, wErr, outVars>>

\* pipeTo sees the source closed and drained (close()) or errored (abort())
IngressFinish ==
  /\ wPc = "idle" /\ inQ = <<>> /\ inState \in {"closed", "errored"}
  /\ wPc' = IF inState = "closed" THEN "closed" ELSE "aborted"
  /\ UNCHANGED <<codecVars, config, userVars, wsState, inState, inQ, sent, firstChunk, wChunk, wSeq, wSock,
                 wErr, outVars>>


\* --- the outbound dispatcher (HandleTCPOutBound, src/index.js 1071-1120) --
\* socks5Connect resolves inside connectAndWrite: bind, take the writer and
\* start writing the initial payload
SocksOk(t) ==
  /\ t \in 1..Len(tasks) /\ tasks[t].pc = "socks"
  /\ socks' = Append(socks, NewSocket("socks5"))
  /\ slot' = Bind(slot, Len(socks) + 1)
  /\ tasks' = [tasks EXCEPT ![t].pc = "write", ![t].sock = Len(socks) + 1]
  /\ UNCHANGED <<codecVars, config, userVars, wsState, ingressVars, udpStreamWriter, dns,
                 frames, dohRequests, parseCount, retryCount>>

\* socks5Connect rejects: connectAndWrite, and with it HandleTCPOutBound or
\* retry, ends with an unhandled rejection
SocksFail(t) ==
  /\ t \in 1..Len(tasks) /\ tasks[t].pc = "socks"
  /\ tasks' = [tasks EXCEPT ![t].pc = "rejected"]
  /\ UNCHANGED <<codecVars, config, userVars, wsState, ingressVars, udpStreamWriter, slot,
                 socks, dns, frames, dohRequests, parseCount, retryCount>>

\* `await writer.write(rawClientData)` resolves; releaseLock; the caller
\* starts RemoteSocketToWS (the retry also registers tcpSocket.closed.finally)
InitWriteOk(t) ==
  /\ t \in 1..Len(tasks) /\ tasks[t].pc = "write"
  /\ socks' = [socks EXCEPT ![tasks[t].sock].written =
                                Append(@, Written(tasks[t].seq, tasks[t].payload)),
                            ![tasks[t].sock].locked = FALSE]
  /\ tasks' = [tasks EXCEPT ![t].pc = "pipe", ![t].armed = (tasks[t].phase = "retry")]
  /\ UNCHANGED <<codecVars, config, userVars, wsState, ingressVars, udpStreamWriter, slot,
                 dns, frames, dohRequests, parseCount, retryCount>>

\* the write rejects (the connection could not be established): the lock is
\* never released and no pipe is started
InitWriteFail(t) ==
  /\ t \in 1..Len(tasks) /\ tasks[t].pc = "write"
  /\ socks' = [socks EXCEPT ![tasks[t].sock].rstate = "errored"]
  /\ tasks' = [tasks EXCEPT ![t].pc = "rejected"]
  /\ UNCHANGED <<codecVars, config, userVars, wsState, ingressVars, udpStreamWriter, slot,
                 dns, frames, dohRequests, parseCount, retryCount>>

\* The arguments retry() passes to RemoteSocketToWS (src/index.js 1115)
RetryPipe(tk) ==
  [tk EXCEPT !.phase = "retry", !.retry = FALSE, !.header = TRUE,
             !.hasIncomingData = FALSE, !.pending = <<>>,
             !.dials = Append(@, retry(config, tk.addressRemote, tk.portRemote))]

\* The end of RemoteSocketToWS (src/index.js 1169-1176) for task t, whose
\* record after the pipe ended is tk, with the streams sk and the WebSocket
\* state ws: retry() up to its first await, or nothing.
AfterPipe(t, tk, sk, ws) ==
  /\ wsState' = ws
  /\ IF ~tk.hasIncomingData /\ tk.retry
     THEN /\ retryCount' = retryCount + 1
          /\ IF retry(config, tk.addressRemote, tk.portRemote).via = "socks5"
             THEN /\ tasks' = [tasks EXCEPT ![t] = [RetryPipe(tk) EXCEPT !.pc = "socks"]]
                  /\ socks' = sk /\ slot' = slot
             ELSE /\ socks' = Append(sk, NewSocket("direct"))
                  /\ slot' = Bind(slot, Len(sk) + 1)
                  /\ tasks' = [tasks EXCEPT ![t] = [RetryPipe(tk) EXCEPT
                                                      !.pc = "write", !.sock = Len(sk) + 1]]
     ELSE /\ tasks' = [tasks EXCEPT ![t] = [tk EXCEPT !.pc = "end"]]
          /\ socks' = sk /\ slot' = slot /\ retryCount' = retryCount

\* --- the remote-to-WebSocket pipe (RemoteSocketToWS, 1146-1177) ----------
\* The sink's write raised: pipeTo cancels the remote readable s and rejects.
PipeAbortKeepsOpen(sk, s) == sk

PipeAbort(sk, s) == [sk EXCEPT ![s].rstate = "cancelled"]

\* write(chunk) of the pipe's sink, up to the await of the Blob
RemoteChunk(t) ==
  /\ t \in 1..Len(tasks) /\ tasks[t].pc = "pipe"
  /\ LET s == tasks[t].sock
         d == RemoteData(s, socks[s].delivered + 1)
     IN /\ socks[s].rstate = "open" /\ socks[s].delivered < MaxRemoteChunks
        /\ IF wsState # "OPEN"
           THEN \* throw: pipeTo cancels the remote readable, catch closes
                /\ AfterPipe(t, tasks[t],
                             PipeAbort([socks EXCEPT ![s].delivered = @ + 1], s),
                             safeCloseWebSocket(wsState))
                /\ frames' = frames
           ELSE IF tasks[t].header
           THEN /\ tasks' = [tasks EXCEPT ![t].hasIncomingData = TRUE, ![t].pc = "blob",
                                          ![t].pending = d]
                /\ socks' = [socks EXCEPT ![s].delivered = @ + 1]
                /\ UNCHANGED <<wsState, slot, frames, retryCount>>
           ELSE /\ tasks' = [tasks EXCEPT ![t].hasIncomingData = TRUE]
                /\ socks' = [socks EXCEPT ![s].delivered = @ + 1]
                /\ frames' = Append(frames, Frame(t, FALSE, tasks[t].ver, d))
                /\ UNCHANGED <<wsState, slot, retryCount>>
  /\ UNCHANGED <<codecVars, config, userVars, ingressVars, udpStreamWriter, dns,
                 dohRequests, parseCount>>

\* the Blob is assembled: webSocket.send(header + chunk), header := null;
\* send on a WebSocket that is no longer OPEN raises
BlobDone(t) ==
  /\ t \in 1..Len(tasks) /\ tasks[t].pc = "blob"
  /\ IF wsState = "OPEN"
     THEN /\ frames' = Append(frames, Frame(t, TRUE, tasks[t].ver, tasks[t].pending))
          /\ tasks' = [tasks EXCEPT ![t].pc = "pipe", ![t].header = FALSE,
                                    ![t].pending = <<>>]
          /\ UNCHANGED <<wsState, slot, socks, retryCount>>
     ELSE /\ AfterPipe(t, [tasks[t] EXCEPT !.pending = <<>>],
                       PipeAbort(socks, tasks[t].sock),
                       safeCloseWebSocket(wsState))
          /\ frames' = frames
  /\ UNCHANGED <<codecVars, config, userVars, ingressVars, udpStreamWriter, dns,
                 dohRequests, parseCount>>

\* the remote read end closes cleanly or errors while the pipe is idle
RemoteEnd(t, how) ==
  /\ t \in 1..Len(tasks) /\ tasks[t].pc = "pipe"
  /\ socks[tasks[t].sock].rstate = "open"
  /\ AfterPipe(t, tasks[t],
               [socks EXCEPT ![tasks[t].sock].rstate = how],
               IF how = "errored" THEN safeCloseWebSocket(wsState) ELSE wsState)
  /\ UNCHANGED <<codecVars, config, userVars, ingressVars, udpStreamWriter, dns, frames,
                 dohRequests, parseCount>>

\* tcpSocket.closed settles on the retried stream: finally(safeCloseWebSocket)
RetryClosedNoClose(t) ==
  /\ t \in 1..Len(tasks) /\ tasks[t].armed /\ ~tasks[t].fired
  /\ socks[tasks[t].sock].rstate # "open"
  /\ tasks' = [tasks EXCEPT ![t].fired = TRUE]
  /\ UNCHANGED <<codecVars, config, userVars, wsState, ingressVars, udpStreamWriter, slot,
                 socks, dns, frames, dohRequests, parseCount, retryCount>>

RetryClosed(t) ==
  /\ t \in 1..Len(tasks) /\ tasks[t].armed /\ ~tasks[t].fired
  /\ socks[tasks[t].sock].rstate # "open"
  /\ tasks' = [tasks EXCEPT ![t].fired = TRUE]
  /\ wsState' = safeCloseWebSocket(wsState)
  /\ UNCHANGED <<codecVars, config, userVars, ingressVars, udpStreamWriter, slot, socks,
                 dns, frames, dohRequests, parseCount, retryCount>>

\* --- the DNS adapter (createDnsPipeline, src/index.js 1254-1291) ---------
\* write(chunk) of the DoH sink: fetch is issued
DnsFetchConcurrent ==
  /\ dns.active /\ dns.queue # <<>>
  /\ dns' = [dns EXCEPT !.pc = "fetch", !.pkt = Head(dns.queue), !.queue = Tail(dns.queue)]
  /\ dohRequests' = Append(dohRequests, Head(dns.queue))
  /\ UNCHANGED <<codecVars, config, userVars, wsState, ingressVars, udpStreamWriter, slot,
                 socks, tasks, frames, parseCount, retryCount>>

\* the sink's write is called for the next packet once the promise of the
\* previous write has settled
DnsFetch ==
  /\ dns.active /\ dns.pc = "idle" /\ dns.queue # <<>>
  /\ dns' = [dns EXCEPT !.pc = "fetch", !.pkt = Head(dns.queue), !.queue = Tail(dns.queue)]
  /\ dohRequests' = Append(dohRequests, Head(dns.queue))
  /\ UNCHANGED <<codecVars, config, userVars, wsState, ingressVars, udpStreamWriter, slot,
                 socks, tasks, frames, parseCount, retryCount>>

\* fetch / arrayBuffer settle: on rejection the error is logged; otherwise
\* the frame is assembled if the WebSocket is OPEN
DnsReplyFailureKills(ok) ==
  /\ dns.pc = "fetch"
  /\ dns' = [dns EXCEPT !.pc = IF ok /\ wsState = "OPEN" THEN "blob" ELSE "idle",
                        !.failedFetches = IF ok THEN @ ELSE @ + 1,
                        !.resp = IF ok /\ wsState = "OPEN"
                                 THEN [status |-> 200, body |-> DnsAnswer(dns.pkt)]
                                 ELSE NoResp,
                        !.active = ok]
  /\ UNCHANGED <<codecVars, config, userVars, wsState, ingressVars, udpStreamWriter, slot,
                 socks, tasks, frames, dohRequests, parseCount, retryCount>>

DnsReply(ok) ==
  /\ dns.pc = "fetch"
  /\ dns' = [dns EXCEPT !.pc = IF ok /\ wsState = "OPEN" THEN "blob" ELSE "idle",
                        !.failedFetches = IF ok THEN @ ELSE @ + 1,
                        !.resp = IF ok /\ wsState = "OPEN"
                                 THEN [status |-> 200, body |-> DnsAnswer(dns.pkt)]
                                 ELSE NoResp]
  /\ UNCHANGED <<codecVars, config, userVars, wsState, ingressVars, udpStreamWriter, slot,
                 socks, tasks, frames, dohRequests, parseCount, retryCount>>

\* fetch resolves with a response whose status is not a success (the
\* resolver answers 400 to a body that is not a DNS message): the code reads
\* its body with arrayBuffer() as it reads that of a 200
HttpErrorStatus == 400

HttpErrorBody == <<69, 114, 114>>

DnsReplyHttpError ==
  /\ dns.pc = "fetch"
  /\ dns' = [dns EXCEPT !.pc = IF wsState = "OPEN" THEN "blob" ELSE "idle",
                        !.resp = IF wsState = "OPEN"
                                 THEN [status |-> HttpErrorStatus, body |-> HttpErrorBody]
                                 ELSE NoResp]
  /\ UNCHANGED <<codecVars, config, userVars, wsState, ingressVars, udpStreamWriter, slot,
                 socks, tasks, frames, dohRequests, parseCount, retryCount>>

\* the Blob is assembled: webSocket.send, with the response header unless
\* isHeaderSent; a send that raises is caught and logged
DnsSend ==
  /\ dns.pc = "blob"
  /\ IF wsState = "OPEN"
     THEN /\ frames' = Append(frames, Frame(0, ~dns.isHeaderSent, dns.ver,
                                            udpSizeBuffer(Len(dns.resp.body))
                                              \o dns.resp.body))
          /\ dns' = [dns EXCEPT !.pc = "idle", !.isHeaderSent = TRUE, !.resp = NoResp]
     ELSE /\ frames' = frames
          /\ dns' = [dns EXCEPT !.pc = "idle", !.resp = NoResp]
  /\ UNCHANGED <<codecVars, config, userVars, wsState, ingressVars, udpStreamWriter, slot,
                 socks, tasks, dohRequests, parseCount, retryCount>>

\* ------------------------------------------------------------------------
Next ==
  \/ \E c \in ClientChunks : ClientSend(c)
  \/ ClientClose
  \/ WsCloseComplete
  \/ WsError
  \/ WriteStart
  \/ FwdDone
  \/ FwdFail
  \/ ParseDone
  \/ DnsWrite
  \/ IngressCancel
  \/ IngressFinish
  \/ \E t \in 1..MaxDispatch : SocksOk(t)
  \/ \E t \in 1..MaxDispatch : SocksFail(t)
  \/ \E t \in 1..MaxDispatch : InitWriteOk(t)
  \/ \E t \in 1..MaxDispatch : InitWriteFail(t)
  \/ \E t \in 1..MaxDispatch : RemoteChunk(t)
  \/ \E t \in 1..MaxDispatch : BlobDone(t)
  \/ \E t \in 1..MaxDispatch : RemoteEnd(t, "closed")
  \/ \E t \in 1..MaxDispatch : RemoteEnd(t, "errored")
  \/ \E t \in 1..MaxDispatch : RetryClosed(t)
  \/ DnsFetch
  \/ \E ok \in BOOLEAN : DnsReply(ok)
  \/ DnsSend

Spec == Init /\ [][Next]_vars


\* The scheduling the runtime guarantees: pipeTo reacts to an errored sink,
\* and a close that was started completes.
FairSpec == Spec /\ WF_vars(IngressCancel) /\ WF_vars(WsCloseComplete)

\* In addition, the `closed` promise of a retried stream that has closed or
\* errored settles and its finally callback runs.
FairSpecRemote == FairSpec /\ WF_vars(\E t \in 1..MaxDispatch : RetryClosed(t))

\* In addition, every await of the dispatcher and of the pipe settles: the
\* SOCKS5 handshake, the write of the initial payload, the assembly of the
\* first frame.  Nothing obliges the remote to send or to close.
FairSpecPipes ==
  /\ FairSpecRemote
  /\ \A t \in 1..MaxDispatch :
       /\ WF_vars(SocksOk(t) \/ SocksFail(t))
       /\ WF_vars(InitWriteOk(t) \/ InitWriteFail(t))
       /\ WF_vars(BlobDone(t))

\* ------------------------------------------------------------------------
\* Part III.  The frame codec on its own: ProcessProtocolHeader applied to
\* requests built field by field, whole or cut short at the end
\* ------------------------------------------------------------------------
AddonLens == (0..MaxAddonLen) \cup {255}
Addons(n) == [i \in 1..n |-> 1]

CodecUuids == {UuidOk, UuidExpired, UuidEdge, UuidCached, UuidUnknown,
               UuidBadVersion, UuidBadVariant}

CodecAddrs ==
  { <<1, <<1, 2, 3, 4>>>>, <<1, <<255, 0, 10, 1>>>>,
    <<2, <<97>>>>, <<2, <<97, 46, 98>>>>, <<2, <<>>>>,
    <<3, <<32, 1, 13, 184, 0, 0, 0, 0, 0, 0, 0, 0, 0, 0, 0, 1>>>>,
    <<3, <<0, 0, 0, 0, 0, 0, 0, 0, 0, 0, 0, 0, 0, 0, 0, 0>>>>,
    <<0, <<>>>>, <<4, <<1, 2, 3, 4>>>> }

CodecRequests ==
  { Request(v, u, Addons(n), c, p, a[1], a[2], pl, cut) :
      v \in {0, 1}, u \in CodecUuids, n \in AddonLens, c \in {0, 1, 2, 3},
      p \in {53, 443}, a \in CodecAddrs, pl \in {<<>>, <<7>>, <<0, 1, 9>>},
      cut \in {0, 1, 4} }

\* The bytes on the wire: the request encoded, minus its last r.cut bytes.
Wire(r) ==
  LET full == EncodeRequest(r.ver, r.uuid, Len(r.addons), r.addons, r.cmd, r.port,
                            r.atyp, AddrField(r.atyp, r.addr), r.payload)
  IN SubSeq(full, 1, IF r.cut >= Len(full) THEN 0 ELSE Len(full) - r.cut)

InitCodec ==
  /\ hreq \in CodecRequests /\ hbuf = Wire(hreq)
  /\ hres = NoResult /\ hres001 = NoResult /\ closeLog = <<>> /\ dialLog = <<>> /\ earlyDataHeader = <<>>
  /\ config = [socks5Relay |-> FALSE, enableSocks |-> FALSE,
               proxyIP |-> FallbackHost, proxyPort |-> FallbackPort]
  /\ kv = InitKV /\ db = InitDB /\ lookups = <<>> /\ admin = <<>>
  /\ wsState = "OPEN" /\ inState = "readable" /\ inQ = <<>> /\ sent = 0
  /\ firstChunk = <<>>
  /\ wPc = "idle" /\ wChunk = <<>> /\ wSeq = 0 /\ wSock = 0 /\ wErr = None
  /\ udpStreamWriter = FALSE /\ slot = 0 /\ socks = <<>> /\ tasks = <<>>
  /\ dns = NoDns /\ frames = <<>> /\ dohRequests = <<>>
  /\ parseCount = 0 /\ retryCount = 0

\* ProcessProtocolHeader(chunk, env) of src/index.js
ParseIndex ==
  /\ hres = NoResult
  /\ LET r == ProcessProtocolHeader(hbuf, kv, db, Now)
     IN hres' = r.res /\ kv' = r.kv
  /\ UNCHANGED <<hreq, hbuf, hres001, closeLog, dialLog, earlyDataHeader, config, db, lookups, admin, wsState, ingressVars, outVars>>

\* ProcessProtocolHeader(chunk, userID) of src/unnamed/part_001
Parse001 ==
  /\ hres001 = NoResult
  /\ hres001' = ProcessProtocolHeader001(hbuf, ConfiguredUserIDs)
  /\ UNCHANGED <<hreq, hbuf, hres, closeLog, dialLog, earlyDataHeader, config, userVars, wsState, ingressVars, outVars>>

NextCodec == ParseIndex \/ Parse001

SpecCodec == InitCodec /\ [][NextCodec]_vars

\* ------------------------------------------------------------------------
\* Part III-b.  A DNS session: the first chunk is a command-2, port-53
\* header whose payload is a concatenation of length-prefixed packets
\* ------------------------------------------------------------------------
MaxDnsPackets == 3

DnsPackets == {<<>>, <<9>>, <<1, 2>>}

DnsPacketLists == UNION {[1..k -> DnsPackets] : k \in 1..MaxDnsPackets}

\* What the client puts on the wire for a list of packets.
DnsEncode(pkts) ==
  Flatten([i \in 1..Len(pkts) |->
             <<Len(pkts[i]) \div 256, Len(pkts[i]) % 256>> \o pkts[i]])

DnsHeaderChunk(payload) ==
  EncodeRequest(1, UuidOk, 0, <<>>, 2, 53, 1, <<1, 1, 1, 1>>, payload)

InitDns ==
  /\ hreq = NoRequest /\ hbuf \in {DnsEncode(pkts) : pkts \in DnsPacketLists}
  /\ hres = NoResult /\ hres001 = NoResult /\ closeLog = <<>> /\ dialLog = <<>> /\ earlyDataHeader = <<>>
  /\ config = [socks5Relay |-> FALSE, enableSocks |-> FALSE,
               proxyIP |-> FallbackHost, proxyPort |-> FallbackPort]
  /\ kv = InitKV /\ db = InitDB /\ lookups = <<>> /\ admin = <<>>
  /\ wsState = "OPEN" /\ inState = "readable"
  /\ inQ = <<DnsHeaderChunk(hbuf)>> /\ sent = 1 /\ firstChunk = DnsHeaderChunk(hbuf)
  /\ wPc = "idle" /\ wChunk = <<>> /\ wSeq = 0 /\ wSock = 0 /\ wErr = None
  /\ udpStreamWriter = FALSE /\ slot = 0 /\ socks = <<>> /\ tasks = <<>>
  /\ dns = NoDns /\ frames = <<>> /\ dohRequests = <<>>
  /\ parseCount = 0 /\ retryCount = 0

NextDns ==
  \/ WriteStart
  \/ ParseDone
  \/ DnsWrite
  \/ DnsFetch
  \/ \E ok \in BOOLEAN : DnsReply(ok)
  \/ DnsSend
  \/ ClientClose

SpecDns == InitDns /\ [][NextDns]_vars

\* Every step of the DNS adapter is eventually taken: the sink takes the next
\* query, and the awaits of fetch and of the reply body settle, with a reply
\* or with an error.
FairSpecDns ==
  /\ SpecDns
  /\ WF_vars(DnsFetch) /\ WF_vars(\E ok \in BOOLEAN : DnsReply(ok)) /\ WF_vars(DnsSend)

\* The DNS session with a second message behind the header chunk.
NextDnsChunks ==
  \/ \E c \in LaterChunks : ClientSend(c)
  \/ WriteStart
  \/ ParseDone
  \/ DnsWrite
  \/ DnsFetch
  \/ \E ok \in BOOLEAN : DnsReply(ok)
  \/ DnsSend
  \/ ClientClose

SpecDnsChunks == InitDns /\ [][NextDnsChunks]_vars

\* A TCP session under every configuration of the two SOCKS flags and of the
\* fallback relay (host and port each configured or not): the header chunk
\* is the first message.
InitDial ==
  /\ hreq = NoRequest /\ hbuf = <<>> /\ hres = NoResult /\ hres001 = NoResult
  /\ closeLog = <<>> /\ dialLog = <<>> /\ earlyDataHeader = <<>>
  /\ config \in [socks5Relay : BOOLEAN, enableSocks : BOOLEAN,
                  proxyIP : {<<>>, FallbackHost}, proxyPort : {0, FallbackPort}]
  /\ kv = InitKV /\ db = InitDB /\ lookups = <<>> /\ admin = <<>>
  /\ wsState = "OPEN" /\ inState = "readable"
  /\ inQ = <<HdrTcp>> /\ sent = 1 /\ firstChunk = HdrTcp
  /\ wPc = "idle" /\ wChunk = <<>> /\ wSeq = 0 /\ wSock = 0 /\ wErr = None
  /\ udpStreamWriter = FALSE /\ slot = 0 /\ socks = <<>> /\ tasks = <<>>
  /\ dns = NoDns /\ frames = <<>> /\ dohRequests = <<>>
  /\ parseCount = 0 /\ retryCount = 0

NextDial ==
  \/ ClientClose
  \/ WsCloseComplete
  \/ WriteStart
  \/ ParseDone
  \/ IngressFinish
  \/ \E t \in 1..MaxDispatch : SocksOk(t)
  \/ \E t \in 1..MaxDispatch : SocksFail(t)
  \/ \E t \in 1..MaxDispatch : InitWriteOk(t)
  \/ \E t \in 1..MaxDispatch : InitWriteFail(t)
  \/ \E t \in 1..MaxDispatch : RemoteChunk(t)
  \/ \E t \in 1..MaxDispatch : BlobDone(t)
  \/ \E t \in 1..MaxDispatch : RemoteEnd(t, "closed")
  \/ \E t \in 1..MaxDispatch : RemoteEnd(t, "errored")
  \/ \E t \in 1..MaxDispatch : RetryClosed(t)

SpecDial == InitDial /\ [][NextDial]_vars

\* The DNS session against a resolver that may also answer with an HTTP
\* error.
NextDnsHttp ==
  \/ WriteStart
  \/ ParseDone
  \/ DnsWrite
  \/ DnsFetch
  \/ \E ok \in BOOLEAN : DnsReply(ok)
  \/ DnsReplyHttpError
  \/ DnsSend
  \/ ClientClose

SpecDnsHttp == InitDns /\ [][NextDnsHttp]_vars

\* ------------------------------------------------------------------------
\* Part III-b'.  The ingress writer of src/unnamed/part_001 in a DNS session
\* (ProtocolOverWSHandler.write 1394-1436, handleDNSQuery 1733-1771)
\* ------------------------------------------------------------------------
\* ProcessProtocolHeader returns; the rest of write(chunk): a UDP request on
\* port 53 sets isDns and returns
ParseDone001 ==
  /\ wPc = "parse"
  /\ LET res == ProcessProtocolHeader001(wChunk, ConfiguredUserIDs)
         rawClientData == Slice(wChunk, res.rawDataIndex, Len(wChunk))
     IN /\ parseCount' = parseCount + 1
        /\ IF res.outcome = "throw"
           THEN /\ wPc' = "failed" /\ wErr' = "parse-exception"
                /\ UNCHANGED <<udpStreamWriter, slot, socks, tasks, dns>>
           ELSE IF hasError(res)
           THEN /\ wPc' = "failed" /\ wErr' = "header"
                /\ UNCHANGED <<udpStreamWriter, slot, socks, tasks, dns>>
           ELSE IF res.isUDP
           THEN IF res.portRemote = 53
                THEN /\ udpStreamWriter' = TRUE
                     /\ dns' = [NoDns EXCEPT !.ver = res.ProtocolVersion]
                     /\ wPc' = "idle" /\ wErr' = wErr
                     /\ UNCHANGED <<slot, socks, tasks>>
                ELSE /\ wPc' = "failed" /\ wErr' = "header"
                     /\ UNCHANGED <<udpStreamWriter, slot, socks, tasks, dns>>
           ELSE /\ Len(tasks) < MaxDispatch
                /\ wPc' = "idle" /\ wErr' = wErr
                /\ IF NewTask(res, rawClientData, wSeq).dials[1].via = "socks5"
                   THEN /\ tasks' = Append(tasks, NewTask(res, rawClientData, wSeq))
                        /\ UNCHANGED <<slot, socks>>
                   ELSE /\ socks' = Append(socks, NewSocket("direct"))
                        /\ slot' = Bind(slot, Len(socks) + 1)
                        /\ tasks' = Append(tasks, [NewTask(res, rawClientData, wSeq) EXCEPT
                                                     !.pc = "write", !.sock = Len(socks) + 1])
                /\ UNCHANGED <<udpStreamWriter, dns>>
  /\ UNCHANGED <<codecVars, config, userVars, wsState, inState, inQ, sent, firstChunk, wChunk,
                 wSeq, wSock, frames, dohRequests, retryCount>>

\* handleDNSQuery(chunk, webSocket, null, log) up to the write of the chunk
\* to the resolver's TCP stream; vlessHeader is the null it was called with
Dns001Query ==
  /\ wPc = "dns" /\ dns.pc = "idle"
  /\ dohRequests' = Append(dohRequests, wChunk)
  /\ dns' = [dns EXCEPT !.pc = "fetch", !.pkt = wChunk, !.isHeaderSent = TRUE]
  /\ UNCHANGED <<codecVars, config, userVars, wsState, ingressVars, udpStreamWriter, slot,
                 socks, tasks, frames, parseCount, retryCount>>

\* the resolver's reply is piped to the WebSocket and its stream closes, or
\* the connection fails and the catch logs; write(chunk) returns
Dns001Reply(ok) ==
  /\ wPc = "dns" /\ dns.pc = "fetch"
  /\ frames' = IF ok /\ wsState = "OPEN"
               THEN Append(frames, Frame(0, ~dns.isHeaderSent, dns.ver, DnsAnswer(dns.pkt)))
               ELSE frames
  /\ dns' = [dns EXCEPT !.pc = "idle"]
  /\ wPc' = "idle"
  /\ UNCHANGED <<codecVars, config, userVars, wsState, inState, inQ, sent, firstChunk, wChunk,
                 wSeq, wSock, wErr, udpStreamWriter, slot, socks, tasks, dohRequests,
                 parseCount, retryCount>>

Next001Dns ==
  \/ \E c \in LaterChunks : ClientSend(c)
  \/ ClientClose
  \/ WriteStart
  \/ ParseDone001
  \/ Dns001Query
  \/ \E ok \in BOOLEAN : Dns001Reply(ok)

Spec001Dns == InitDns /\ [][Next001Dns]_vars

\* ------------------------------------------------------------------------
\* Part III-b''.  The user store: getUserData step by step, against the admin
\* deletes (src/index.js 31-52, 596-614, 639-648)
\* ------------------------------------------------------------------------
MaxLookups == 2
MaxDeletes == 1

StoreUuids == {StrOk, StrCached}
NoRow == UserRec(0, 0)

\* the admin deletes that have returned their response
DeletedUuids == UNION {admin[a].uuids : a \in {b \in 1..Len(admin) : admin[b].pc = "done"}}

\* a session calls getUserData(env, uuid) from ProcessProtocolHeader
LookupStart(u) ==
  /\ Len(lookups) < MaxLookups
  /\ lookups' = Append(lookups, [uuid |-> u, pc |-> "kv", row |-> NoRow, userData |-> NoUser,
                                 afterDelete |-> u \in DeletedUuids])
  /\ UNCHANGED <<codecVars, config, kv, db, admin, wsState, ingressVars, outVars>>

\* await env.USER_KV.get: a cached entry that parses is returned
LookupKv(i) ==
  /\ i \in 1..Len(lookups) /\ lookups[i].pc = "kv"
  /\ LET u == lookups[i].uuid
     IN lookups' = IF u \in DOMAIN kv /\ kv[u].parses
                   THEN [lookups EXCEPT ![i].pc = "done",
                                        ![i].userData = FoundUser(kv[u].exp_date, kv[u].exp_time)]
                   ELSE [lookups EXCEPT ![i].pc = "db"]
  /\ UNCHANGED <<codecVars, config, kv, db, admin, wsState, ingressVars, outVars>>

\* await env.DB.prepare(SELECT ...).first(): null is returned for no row
LookupDb(i) ==
  /\ i \in 1..Len(lookups) /\ lookups[i].pc = "db"
  /\ LET u == lookups[i].uuid
     IN lookups' = IF u \notin DOMAIN db
                   THEN [lookups EXCEPT ![i].pc = "done", ![i].userData = NoUser]
                   ELSE [lookups EXCEPT ![i].pc = "put", ![i].row = db[u]]
  /\ UNCHANGED <<codecVars, config, kv, db, admin, wsState, ingressVars, outVars>>

\* await env.USER_KV.put of the row that was read; the row is returned
LookupPut(i) ==
  /\ i \in 1..Len(lookups) /\ lookups[i].pc = "put"
  /\ LET u == lookups[i].uuid
         row == lookups[i].row
     IN /\ kv' = [k \in (DOMAIN kv) \cup {u} |->
                    IF k = u THEN CacheEntry(row.exp_date, row.exp_time, TRUE) ELSE kv[k]]
        /\ lookups' = [lookups EXCEPT ![i].pc = "done",
                                      ![i].userData = FoundUser(row.exp_date, row.exp_time)]
  /\ UNCHANGED <<codecVars, config, db, admin, wsState, ingressVars, outVars>>

\* an admin request arrives: DELETE /admin/api/users/:uuid (one uuid) or
\* POST /admin/api/users/bulk-delete (a non-empty array)
DeleteStart(route, uuids) ==
  /\ Len(admin) < MaxDeletes
  /\ uuids # {} /\ (route = "single" => Cardinality(uuids) = 1)
  /\ admin' = Append(admin, [route |-> route, uuids |-> uuids, pc |-> "db", kvLeft |-> uuids])
  /\ UNCHANGED <<codecVars, config, kv, db, lookups, wsState, ingressVars, outVars>>

\* await env.DB ... run() / env.DB.batch(stmts): the rows are deleted
DeleteDb(a) ==
  /\ a \in 1..Len(admin) /\ admin[a].pc = "db"
  /\ db' = [k \in (DOMAIN db) \ admin[a].uuids |-> db[k]]
  /\ admin' = [admin EXCEPT ![a].pc = "kv"]
  /\ UNCHANGED <<codecVars, config, kv, lookups, wsState, ingressVars, outVars>>

\* env.USER_KV.delete of one key (the bulk route issues them in parallel);
\* after the last one the response is returned
DeleteKv(a, u) ==
  /\ a \in 1..Len(admin) /\ admin[a].pc = "kv" /\ u \in admin[a].kvLeft
  /\ kv' = [k \in (DOMAIN kv) \ {u} |-> kv[k]]
  /\ admin' = [admin EXCEPT ![a].kvLeft = @ \ {u},
                            ![a].pc = IF admin[a].kvLeft = {u} THEN "done" ELSE "kv"]
  /\ UNCHANGED <<codecVars, config, db, lookups, wsState, ingressVars, outVars>>

NextUsers ==
  \/ \E u \in StoreUuids : LookupStart(u)
  \/ \E i \in 1..MaxLookups : LookupKv(i)
  \/ \E i \in 1..MaxLookups : LookupDb(i)
  \/ \E i \in 1..MaxLookups : LookupPut(i)
  \/ \E uuids \in SUBSET StoreUuids : DeleteStart("bulk", uuids)
  \/ \E uuids \in SUBSET StoreUuids : DeleteStart("single", uuids)
  \/ \E a \in 1..MaxDeletes : DeleteDb(a)
  \/ \E a \in 1..MaxDeletes : \E u \in StoreUuids : DeleteKv(a, u)

\* the store as deployed, before any session or admin request
InitUsers ==
  /\ Init
  /\ earlyDataHeader = <<>>
  /\ config = [socks5Relay |-> FALSE, enableSocks |-> FALSE,
               proxyIP |-> FallbackHost, proxyPort |-> FallbackPort]

SpecUsers == InitUsers /\ [][NextUsers]_vars

\* ------------------------------------------------------------------------
\* Part III-c.  The SOCKS5 dialer on its own: socks5Connect called for the
\* destination of a parsed header, with or without credentials, against a
\* server whose three answers are drawn from small sets
\* ------------------------------------------------------------------------
MaxDials == 2

SocksAddrs ==
  { <<1, <<1, 2, 3, 4>>>>, <<1, <<255, 0, 10, 1>>>>,
    <<2, <<97, 46, 98>>>>,
    <<3, <<32, 1, 13, 184, 0, 0, 0, 0, 0, 0, 0, 0, 0, 0, 0, 1>>>>,
    <<3, <<32, 1, 171, 205, 18, 52, 86, 120, 154, 188, 222, 240, 17, 17, 255, 255>>>> }

SocksRequests ==
  { Request(1, UuidOk, <<>>, 1, 443, a[1], a[2], <<7>>, 0) : a \in SocksAddrs }

NoCreds == [username |-> <<>>, password |-> <<>>]

SocksCreds == {NoCreds, [username |-> <<117>>, password |-> <<112, 119>>]}

MethodReplies == {<<5, 0>>, <<5, 1>>, <<5, 2>>, <<5, 255>>, <<4, 0>>}

AuthReplies == {<<1, 0>>, <<1, 1>>}

ConnectReplies == {<<5, 0>>, <<5, 5>>}

InitSocks ==
  /\ hreq \in SocksRequests /\ hbuf = Wire(hreq)
  /\ hres = ProcessProtocolHeader(hbuf, InitKV, InitDB, Now).res
  /\ kv = ProcessProtocolHeader(hbuf, InitKV, InitDB, Now).kv /\ db = InitDB /\ lookups = <<>> /\ admin = <<>>
  /\ hres001 = ProcessProtocolHeader001(hbuf, ConfiguredUserIDs)
  /\ closeLog = <<>> /\ dialLog = <<>> /\ earlyDataHeader = <<>>
  /\ config = [socks5Relay |-> TRUE, enableSocks |-> TRUE,
               proxyIP |-> FallbackHost, proxyPort |-> FallbackPort]
  /\ wsState = "OPEN" /\ inState = "readable" /\ inQ = <<>> /\ sent = 0
  /\ firstChunk = <<>>
  /\ wPc = "idle" /\ wChunk = <<>> /\ wSeq = 0 /\ wSock = 0 /\ wErr = None
  /\ udpStreamWriter = FALSE /\ slot = 0 /\ socks = <<>> /\ tasks = <<>>
  /\ dns = NoDns /\ frames = <<>> /\ dohRequests = <<>>
  /\ parseCount = 0 /\ retryCount = 0

\* one call of socks5Connect of the variant, for the destination of res
Dial(variant, res, creds, method, auth, reply) ==
  /\ Len(dialLog) < MaxDials
  /\ dialLog' = Append(dialLog,
                       [variant |-> variant, creds |-> creds] @@
                       socks5Connect(variant, res.addressType, res.addressRemote,
                                     res.portRemote, creds, method, auth, reply))
  /\ UNCHANGED <<hreq, hbuf, hres, hres001, closeLog, earlyDataHeader, config, userVars,
                 wsState, ingressVars, outVars>>

\* socks5Connect of src/index.js
DialIndex ==
  \E creds \in SocksCreds, method \in MethodReplies, auth \in AuthReplies,
     reply \in ConnectReplies : Dial("index", hres, creds, method, auth, reply)

\* socks5Connect of src/unnamed/part_001
Dial001 ==
  \E creds \in SocksCreds, method \in MethodReplies, auth \in AuthReplies,
     reply \in ConnectReplies : Dial("part_001", hres001, creds, method, auth, reply)

NextSocks == DialIndex \/ Dial001

SpecSocks == InitSocks /\ [][NextSocks]_vars

\* ------------------------------------------------------------------------
\* Part III-d.  safeCloseWebSocket on its own: repeated calls on a socket in
\* any state, whose close() may throw
\* ------------------------------------------------------------------------
MaxCloseCalls == 4

ReadyStates == {"CONNECTING", "OPEN", "CLOSING", "CLOSED"}

InitClose ==
  /\ hreq = NoRequest /\ hbuf = <<>> /\ hres = NoResult /\ hres001 = NoResult
  /\ closeLog = <<>> /\ dialLog = <<>> /\ earlyDataHeader = <<>>
  /\ config = [socks5Relay |-> FALSE, enableSocks |-> FALSE,
               proxyIP |-> FallbackHost, proxyPort |-> FallbackPort]
  /\ kv = InitKV /\ db = InitDB /\ lookups = <<>> /\ admin = <<>>
  /\ wsState \in ReadyStates /\ inState = "readable" /\ inQ = <<>> /\ sent = 0
  /\ firstChunk = <<>>
  /\ wPc = "idle" /\ wChunk = <<>> /\ wSeq = 0 /\ wSock = 0 /\ wErr = None
  /\ udpStreamWriter = FALSE /\ slot = 0 /\ socks = <<>> /\ tasks = <<>>
  /\ dns = NoDns /\ frames = <<>> /\ dohRequests = <<>>
  /\ parseCount = 0 /\ retryCount = 0

\* one call of safeCloseWebSocket(socket)
SafeClose(closeThrows) ==
  /\ Len(closeLog) < MaxCloseCalls
  /\ LET r == safeCloseWebSocketCall(wsState, closeThrows)
     IN /\ wsState' = r.readyState
        /\ closeLog' = Append(closeLog, [readyState |-> wsState, closeThrows |-> closeThrows,
                                         closeCalled |-> r.closeCalled, raised |-> r.raised])
  /\ UNCHANGED <<hreq, hbuf, hres, hres001, dialLog, earlyDataHeader, config, userVars,
                 ingressVars, outVars>>

\* webSocket.accept() (src/index.js 929)
WsAccept ==
  /\ wsState = "CONNECTING"
  /\ wsState' = "OPEN"
  /\ UNCHANGED <<codecVars, config, userVars, ingressVars, outVars>>

NextClose ==
  \/ \E closeThrows \in BOOLEAN : SafeClose(closeThrows)
  \/ WsAccept
  \/ WsCloseComplete

SpecClose == InitClose /\ [][NextClose]_vars

\* ------------------------------------------------------------------------
\* Part IV.  Properties
\* ------------------------------------------------------------------------
\* --- the session ---------------------------------------------------------
\* C1: in every session exactly one frame carries the two-byte response
\* header: the first frame sent has it prepended and no later frame has.
C1_ResponseHeaderOnce ==
  Len(frames) >= 1 =>
    /\ frames[1].hdr
    /\ \A i \in 2..Len(frames) : ~frames[i].hdr

\* C2: the retry thunk is invoked at most once per session, and only at a
\* moment when no chunk from the remote has been delivered to the client.
C2_RetryAtMostOnce ==
  [][retryCount' # retryCount =>
       /\ retryCount = 0
       /\ \A i \in 1..Len(frames) : frames[i].src = 0]_vars

\* C3: a chunk the client sends after the header chunk was parsed and before
\* the remote stream is bound and its initial payload written is neither
\* parsed as a header nor the cause of an abort of the session.
Connecting == \E t \in 1..Len(tasks) : tasks[t].pc \in {"socks", "write"}

C3_NoDropWhileConnecting ==
  /\ ~(Connecting /\ wPc = "parse")
  /\ wErr # "locked"

\* C4: ProcessProtocolHeader is invoked at most once per session, on the
\* first chunk only.
C4_HeaderParsedOnce == parseCount <= 1

\* C5 as stated: once a stream is bound to the slot it is never replaced.
C5_NeverReplaced == [][slot # 0 => slot' = slot]_vars

\* C5 as amended: the slot never returns from bound to empty, and whenever
\* it is bound it holds the stream connectAndWrite opened last (the retry's
\* stream replaces the primary one).
C5_SlotHoldsLatestStream ==
  [][/\ slot # 0 => slot' # 0
     /\ slot' # 0 => slot' = Len(socks')]_vars

\* The retry has bound a second stream over the primary one, which closed
\* without data.
C5_Witness ==
  /\ slot = 2 /\ Len(tasks) = 1 /\ tasks[1].phase = "retry" /\ tasks[1].sock = 2
  /\ socks[1].rstate = "closed" /\ socks[1].delivered = 0

\* C6: when header processing fails on the first chunk, the session never
\* opens an outbound stream, never starts a SOCKS5 handshake, never issues a
\* DoH request and writes no byte to any remote.
HeaderFails(chunk) ==
  LET res == ProcessProtocolHeader(chunk, InitKV, InitDB, Now).res
  IN res.outcome # "ok" \/ (res.isUDP /\ res.portRemote # 53)

C6_NoOutboundAfterHeaderFailure ==
  (firstChunk # <<>> /\ HeaderFails(firstChunk)) =>
    /\ tasks = <<>> /\ socks = <<>> /\ slot = 0
    /\ ~dns.active /\ ~udpStreamWriter /\ dohRequests = <<>>

\* A first chunk of an unknown user was rejected with a second chunk already
\* queued behind it, and the session has ended.
C6_Witness ==
  /\ firstChunk = HdrBadUser /\ sent = 2 /\ parseCount = 1
  /\ wPc = "dead" /\ wErr = "header" /\ inState = "cancelled" /\ wsState = "CLOSED"

\* C7: whenever the ingress writer fails, the ingress pipeline is cancelled
\* and the WebSocket is eventually closed.
C7_WriterFailureClosesWebSocket ==
  (wPc = "failed") ~> (wPc = "dead" /\ inState # "readable" /\ wsState = "CLOSED")

\* The writer failed on a header error while the source was still readable;
\* the source was cancelled and the close completed.
C7_Witness ==
  /\ wPc = "dead" /\ wErr \in {"header", "parse-exception", "locked"}
  /\ inState = "cancelled" /\ wsState = "CLOSED"

\* C11: a session enters DNS mode only when its header has command 2 and
\* port 53, starts a TCP outbound only when its header has command 1, and a
\* command-2 header with another port is rejected: the writer fails and the
\* session has neither a DoH request nor a dial.
SessionHeader == ProcessProtocolHeader(firstChunk, InitKV, InitDB, Now).res

C11_DispatchByCommand ==
  /\ udpStreamWriter =>
       SessionHeader.outcome = "ok" /\ SessionHeader.isUDP /\ SessionHeader.portRemote = 53
  /\ tasks # <<>> => SessionHeader.outcome = "ok" /\ ~SessionHeader.isUDP
  /\ (SessionHeader.outcome = "ok" /\ SessionHeader.isUDP /\ SessionHeader.portRemote # 53) =>
       /\ tasks = <<>> /\ socks = <<>> /\ ~udpStreamWriter /\ dohRequests = <<>>
       /\ parseCount >= 1 => wPc \in {"failed", "dead"}

\* C12: byte fidelity.  The bytes of the frames a pipe has sent, without the
\* two header bytes in front of the first frame, are at every moment a prefix
\* of the bytes read from the pipe's remote stream; and as long as the pipe
\* runs, every chunk read has been sent or is the one being assembled.
IsPrefix(a, b) == Len(a) <= Len(b) /\ SubSeq(b, 1, Len(a)) = a

PipeFrames(t) == SelectSeq(frames, LAMBDA f : f.src = t)

SentBytes(t) == Flatten([i \in 1..Len(PipeFrames(t)) |-> dataToSend(PipeFrames(t)[i])])

StripHeader(bytes) == SubSeq(bytes, 3, Len(bytes))

ReadBytes(s) == Flatten([i \in 1..socks[s].delivered |-> RemoteData(s, i)])

C12_ByteFidelity ==
  \A t \in 1..Len(tasks) :
    /\ PipeFrames(t) # <<>> =>
         /\ tasks[t].sock # 0
         /\ PipeFrames(t)[1].hdr
         /\ IsPrefix(StripHeader(SentBytes(t)), ReadBytes(tasks[t].sock))
    /\ tasks[t].pc \in {"pipe", "blob"} =>
         StripHeader(SentBytes(t)) \o tasks[t].pending = ReadBytes(tasks[t].sock)

\* A retried stream has delivered two chunks and both are on the wire, the
\* first behind the response header.
C12_Witness ==
  /\ Len(tasks) = 1 /\ tasks[1].phase = "retry" /\ tasks[1].pc = "pipe"
  /\ socks[tasks[1].sock].delivered = 2
  /\ Len(frames) = 2 /\ frames[1].hdr /\ ~frames[2].hdr
  /\ wsState = "OPEN"

\* C13: client bytes reach every remote stream in arrival order: in the
\* sequence of writes to a stream (the initial payload, then the forwarded
\* chunks) no write carries a client chunk that arrived before the chunk of
\* an earlier write.
C13_ArrivalOrder ==
  \A s \in 1..Len(socks) :
    \A i, j \in 1..Len(socks[s].written) :
      i < j => socks[s].written[i].seq < socks[s].written[j].seq

\* The initial payload of the header chunk and then the second chunk have
\* been written to the stream of a direct dial.
C13_Witness ==
  /\ ~config.socks5Relay /\ Len(socks) = 1
  /\ socks[1].written = <<Written(1, <<7>>), Written(2, DataChunk)>>

\* C14: DNS framing.  For a chunk that is the concatenation of k complete
\* length-prefixed packets the adapter issues exactly k resolver requests,
\* whose bodies are the k packets in order; every frame it sends is a 16-bit
\* big-endian length equal to the length of the reply body that follows it,
\* the replies are sent in the order of their requests, each reply that is
\* ready while the WebSocket is OPEN is sent as one frame of its own, and the
\* response header is in front of the first frame only.
RECURSIVE IsSubseq(_, _)
IsSubseq(a, b) ==
  IF a = <<>> THEN TRUE
  ELSE IF b = <<>> THEN FALSE
  ELSE IF Head(a) = Head(b) THEN IsSubseq(Tail(a), Tail(b))
  ELSE IsSubseq(a, Tail(b))

ReplyBody(f) == SubSeq(f.data, 3, Len(f.data))

DnsFramingState(pkts) ==
  /\ IF udpStreamWriter /\ wPc = "idle"
     THEN dohRequests \o dns.queue = pkts
     ELSE dohRequests = <<>>
  /\ IsPrefix(dohRequests, pkts)
  /\ \A i \in 1..Len(frames) :
       /\ Len(frames[i].data) >= 2
       /\ 256 * frames[i].data[1] + frames[i].data[2] = Len(ReplyBody(frames[i]))
       /\ frames[i].hdr = (i = 1)
  /\ IsSubseq([i \in 1..Len(frames) |-> ReplyBody(frames[i])],
              [j \in 1..Len(dohRequests) |-> DnsAnswer(dohRequests[j])])

C14_DnsFraming ==
  [][\A pkts \in DnsPacketLists :
       hbuf = DnsEncode(pkts) =>
         /\ DnsFramingState(pkts)'
         /\ (dns.pc = "blob" /\ dns'.pc = "idle" /\ wsState = "OPEN") =>
              /\ Len(frames') = Len(frames) + 1
              /\ ReplyBody(frames'[Len(frames')]) = DnsAnswer(dns.pkt)]_vars

\* Three packets in one chunk, one of them empty and one with an answer of
\* more than 255 bytes: three requests were issued and three frames sent.
C14_Witness ==
  /\ hbuf = DnsEncode(<<<<>>, <<1, 2>>, <<9>>>>)
  /\ dohRequests = <<<<>>, <<1, 2>>, <<9>>>>
  /\ Len(frames) = 3 /\ frames[2].data[1] = 1 /\ dns.pc = "idle"

\* C15: safeCloseWebSocket never raises, whatever the socket's state, however
\* often it is called and whether or not close() throws; and it calls close()
\* if and only if readyState is OPEN or CLOSING.
C15_SafeCloseNeverRaises ==
  \A i \in 1..Len(closeLog) :
    /\ ~closeLog[i].raised
    /\ closeLog[i].closeCalled <=> closeLog[i].readyState \in {"OPEN", "CLOSING"}

\* Four calls in a row: on a CONNECTING socket, on the OPEN socket with a
\* close() that throws, again with one that returns, and on the CLOSING
\* socket with a close() that throws.
C15_Witness ==
  /\ Len(closeLog) = 4
  /\ closeLog[1].readyState = "CONNECTING" /\ ~closeLog[1].closeCalled
  /\ closeLog[2].readyState = "OPEN" /\ closeLog[2].closeThrows /\ closeLog[2].closeCalled
  /\ closeLog[3].readyState = "OPEN" /\ ~closeLog[3].closeThrows
  /\ closeLog[4].readyState = "CLOSING" /\ closeLog[4].closeThrows /\ closeLog[4].closeCalled

\* C16: whenever a remote-to-WebSocket pipe has ended without invoking retry
\* (data was delivered, or the pipe had no retry thunk), the WebSocket is
\* eventually closed.
PipeEndedWithoutRetry == \E t \in 1..Len(tasks) : tasks[t].pc = "end"

C16_PipeEndClosesWebSocket == PipeEndedWithoutRetry ~> (wsState = "CLOSED")

\* C17: invoking retry and closing the WebSocket are mutually exclusive
\* outcomes of a pipe ending: a step in which a pipe invokes retry() is never
\* a step in which that pipe closes the open WebSocket.
C17_RetryExcludesClose ==
  [][retryCount' # retryCount => ~(wsState = "OPEN" /\ wsState' # "OPEN")]_vars

\* C18: if the primary open of a dispatch fails (the SOCKS5 handshake fails,
\* or the direct connect or the write of the initial payload fails), the
\* retry path of that dispatch is attempted.
OpenFailed(t, phase) ==
  t \in 1..Len(tasks) /\ tasks[t].phase = phase /\ tasks[t].pc = "rejected"

Retried(t) == t \in 1..Len(tasks) /\ tasks[t].phase = "retry"

C18_PrimaryFailureRetries ==
  \A t \in 1..MaxDispatch : OpenFailed(t, "primary") ~> Retried(t)

\* C19: if the retry open fails (connect, SOCKS5 handshake or the re-write of
\* the initial payload), the WebSocket is eventually closed.
C19_RetryFailureClosesWebSocket ==
  (\E t \in 1..MaxDispatch : OpenFailed(t, "retry")) ~> (wsState = "CLOSED")

\* C20: once the retried stream has been opened, any close or error of that
\* stream leads to the WebSocket being closed.
RetriedStreamEnded ==
  \E t \in 1..Len(tasks) :
    tasks[t].phase = "retry" /\ tasks[t].armed /\ socks[tasks[t].sock].rstate # "open"

C20_RetriedStreamEndCloses == RetriedStreamEnded ~> (wsState = "CLOSED")

\* The retried stream delivered a chunk and then closed cleanly; the finally
\* callback of its `closed` promise closed the WebSocket.
C20_Witness ==
  /\ Len(tasks) = 1 /\ tasks[1].phase = "retry" /\ tasks[1].pc = "end"
  /\ tasks[1].hasIncomingData /\ tasks[1].fired
  /\ socks[tasks[1].sock].rstate = "closed" /\ Len(frames) = 1
  /\ inState = "closed" /\ wsState = "CLOSED" /\ wErr = None

\* C21: the bytes decoded from the early-data header are the first chunk the
\* ingress writer receives, and the session treats them as it treats a first
\* WebSocket message with the same bytes: the header parsed is the header of
\* those bytes, and the initial payload dispatched and written to the remote
\* is what follows the header in them.
EarlyPayload(c) ==
  Slice(c, ProcessProtocolHeader(c, InitKV, InitDB, Now).res.rawDataIndex, Len(c))

C21_EarlyDataFirst ==
  \A c \in EarlyChunks :
    earlyDataHeader = Base64UrlEncode(c) =>
      /\ sent >= 1 /\ firstChunk = c
      /\ (wSeq = 1 /\ wPc = "parse") => wChunk = c
      /\ (parseCount >= 1 /\ ~HeaderFails(c)) => tasks # <<>>
      /\ \A t \in 1..Len(tasks) :
           tasks[t].seq = 1 => tasks[t].payload = EarlyPayload(c)
      /\ \A s \in 1..Len(socks) : \A i \in 1..Len(socks[s].written) :
           socks[s].written[i].seq = 1 => socks[s].written[i].data = EarlyPayload(c)

\* A session whose header chunk came as early data has written its payload
\* and then the first WebSocket message to the remote.
C21_Witness ==
  /\ earlyDataHeader = Base64UrlEncode(HdrTcpEarly)
  /\ Len(socks) = 1
  /\ socks[1].written = <<Written(1, <<62, 255>>), Written(2, DataChunk)>>

\* C22: if the early-data header fails to decode, no header is parsed, no
\* outbound TCP, SOCKS5 or DoH request is made, and the WebSocket is
\* eventually closed.
EarlyDecodeFailed == base64ToArrayBuffer(earlyDataHeader).error

NothingOutbound ==
  /\ parseCount = 0 /\ tasks = <<>> /\ socks = <<>> /\ slot = 0
  /\ ~udpStreamWriter /\ dohRequests = <<>>

C22_EarlyDecodeFailureEnds ==
  /\ [](EarlyDecodeFailed => NothingOutbound)
  /\ EarlyDecodeFailed ~> (wsState = "CLOSED")

\* C23: webSocket.send is never called on a WebSocket that is not OPEN at the
\* moment of the call, in the TCP pipe and in the DNS adapter: the step that
\* ends the assembly of a frame and calls send, and every step that puts a
\* frame on the wire, is taken with the WebSocket OPEN.
C23_SendOnlyWhenOpen ==
  [][/\ \A t \in 1..Len(tasks) :
          (tasks[t].pc = "blob" /\ tasks'[t].pc # "blob") => wsState = "OPEN"
     /\ (dns.pc = "blob" /\ dns'.pc # "blob") => wsState = "OPEN"
     /\ Len(frames') > Len(frames) => wsState = "OPEN"]_vars

\* C24 as stated: after the WebSocket has closed, every remote stream of the
\* session is eventually closed.
RemoteOpen == \E s \in 1..Len(socks) : socks[s].rstate = "open"

C24_ClosePropagatesToRemote == (wsState = "CLOSED" /\ RemoteOpen) ~> ~RemoteOpen

\* C24 as amended: the close of the WebSocket reaches a remote stream when
\* the pipe next takes a chunk from it: a step in which a pipe takes a chunk,
\* or finishes assembling a frame, while the WebSocket is not OPEN leaves
\* that stream cancelled and sends nothing.
C24_NextChunkClosesRemote ==
  [][\A t \in 1..Len(tasks) :
       LET s == tasks[t].sock
       IN (/\ wsState # "OPEN" /\ tasks[t].pc \in {"pipe", "blob"}
           /\ \/ socks'[s].delivered > socks[s].delivered
              \/ tasks[t].pc = "blob" /\ tasks'[t].pc # "blob")
          => socks'[s].rstate = "cancelled" /\ frames' = frames]_vars

\* The client closed the WebSocket, the remote then delivered a chunk and the
\* pipe cancelled the stream without sending a frame.
C24_Witness ==
  /\ wsState = "CLOSED" /\ Len(socks) = 1 /\ socks[1].rstate = "cancelled"
  /\ socks[1].delivered = 1 /\ frames = <<>> /\ tasks[1].pc = "end"

\* C25: a DoH query whose request fails does not kill the session: the step
\* that logs the failure leaves the WebSocket, the DNS mode, the adapter and
\* the queries still queued as they were; the queries behind it are all
\* dispatched; and the first frame that is sent carries the response header.
C25_FailedQuerySkipped ==
  /\ [][dns'.failedFetches > dns.failedFetches =>
          /\ wsState' = wsState /\ udpStreamWriter' /\ dns'.active
          /\ dns'.queue = dns.queue /\ dns'.pc = "idle" /\ wPc' = wPc]_vars
  /\ [](dns.failedFetches > 0 =>
          /\ udpStreamWriter /\ dns.active
          /\ \A i \in 1..Len(frames) : frames[i].hdr = (i = 1))
  /\ (dns.failedFetches > 0 /\ dns.queue # <<>>) ~> (dns.queue = <<>>)

\* The first of three queries failed; the other two were dispatched and
\* answered, the first of the two replies behind the response header.
C25_Witness ==
  /\ hbuf = DnsEncode(<<<<9>>, <<>>, <<1, 2>>>>)
  /\ dns.failedFetches = 1 /\ Len(dohRequests) = 3 /\ Len(frames) = 2
  /\ ReplyBody(frames[1]) = DnsAnswer(<<>>) /\ frames[1].hdr
  /\ ReplyBody(frames[2]) = DnsAnswer(<<1, 2>>) /\ wsState = "OPEN"

DialTo(via, host, port) == [via |-> via, host |-> host, port |-> port]

SocksAtyp(atyp) == CASE atyp = 1 -> 1 [] atyp = 2 -> 3 [] atyp = 3 -> 4

C27_ConnectCarriesDestination ==
  \A i \in 1..Len(dialLog) :
    dialLog[i].request # <<>> =>
      dialLog[i].request =
        <<5, 1, 0, SocksAtyp(hreq.atyp)>> \o AddrField(hreq.atyp, hreq.addr)
          \o <<hreq.port \div 256, hreq.port % 256>>

\* C28: each of the five failure conditions of the dialer (server version
\* mismatch, method 0xFF, authentication required without credentials,
\* authentication rejected, CONNECT reply status other than 0) fails with an
\* error kind that tells it from the other four, and hands no stream to the
\* dispatcher.
FailureCondition(e) ==
  LET method == e.replies[1]
  IN IF method[1] # 5 THEN "version mismatch"
     ELSE IF method[2] = 255 THEN "no acceptable methods"
     ELSE IF method[2] = 2 /\ (e.creds.username = <<>> \/ e.creds.password = <<>>)
     THEN "no credentials"
     ELSE IF method[2] = 2 /\ (e.replies[2][1] # 1 \/ e.replies[2][2] # 0)
     THEN "authentication rejected"
     ELSE IF e.replies[Len(e.replies)][2] # 0 THEN "connect refused"
     ELSE "none"

ErrorKind(e) == <<e.outcome, e.error>>

C28_DistinctFailureKinds ==
  \A i, j \in 1..Len(dialLog) :
    LET a == dialLog[i]
        b == dialLog[j]
    IN /\ FailureCondition(a) # "none" => a.outcome # "stream"
       /\ (/\ a.variant = b.variant
           /\ FailureCondition(a) # "none" /\ FailureCondition(b) # "none"
           /\ FailureCondition(a) # FailureCondition(b)) => ErrorKind(a) # ErrorKind(b)

\* C29: whenever socks5Connect returns a stream, neither the readable nor
\* the writable half of that stream is locked.
C29_ReturnedStreamUnlocked ==
  \A i \in 1..Len(dialLog) :
    dialLog[i].outcome = "stream" =>
      ~dialLog[i].writableLocked /\ ~dialLog[i].readableLocked

\* Both variants have returned a stream after a handshake with
\* authentication: three writes each, and both halves free.
C29_Witness ==
  /\ Len(dialLog) = 2
  /\ dialLog[1].variant = "index" /\ dialLog[2].variant = "part_001"
  /\ \A i \in 1..2 :
       /\ dialLog[i].outcome = "stream" /\ Len(dialLog[i].written) = 3
       /\ dialLog[i].replies = <<<<5, 2>>, <<1, 0>>, <<5, 0>>>>
       /\ ~dialLog[i].writableLocked /\ ~dialLog[i].readableLocked

\* C31: a DNS reply frame is sent to the client only for a DoH request that
\* succeeded: every frame the adapter sends is made from a response whose
\* status is a success, and no frame carries the body of an error response.
C31_OnlySuccessRelayed ==
  [][Len(frames') > Len(frames) =>
       /\ dns.resp.status \in 200..299
       /\ ReplyBody(frames'[Len(frames')]) # HttpErrorBody]_vars

\* C32: the ingress path honours back-pressure: a client message is accepted
\* into the ingress queue only while the queue is below its high-water mark
\* (the writer has room), so the number of chunks buffered between the
\* WebSocket and the writer never exceeds the mark.
C32_IngressBackPressure ==
  /\ [][Len(inQ') > Len(inQ) => Len(inQ) < HighWaterMark]_vars
  /\ [](Len(inQ) <= HighWaterMark)

\* C33: in the ingress writer of src/unnamed/part_001, a UDP request on port
\* 53 whose header chunk carries a DNS query as payload has that query
\* dispatched to the resolver (it is the first request, made by the time the
\* writer is done with the header chunk), and the first reply frame sent to
\* the client begins with the two-byte response header.
HeaderChunkDone == parseCount >= 1 /\ (wSeq > 1 \/ wPc = "idle")

C33_Part001DnsFirstQuery ==
  /\ (udpStreamWriter /\ HeaderChunkDone /\ hbuf # <<>>) =>
       dohRequests # <<>> /\ dohRequests[1] = hbuf
  /\ Len(frames) >= 1 => frames[1].hdr

\* C34: a session is in at most one outbound mode: the DNS writer and the
\* remote-stream slot are never both set, no TCP remote is dialled (no
\* dispatch starts, no socket is opened) while the DNS writer is set, and no
\* DoH request is issued while a remote is bound.
C34_OneOutboundMode ==
  /\ [](~(udpStreamWriter /\ slot # 0))
  /\ [][udpStreamWriter => Len(socks') = Len(socks) /\ Len(tasks') = Len(tasks)]_vars
  /\ [][slot # 0 => dohRequests' = dohRequests]_vars

\* C36: after a retry (the retried stream has been written its initial
\* payload), the retried stream has received every client chunk sent since
\* the header, in order: every chunk that was written to another remote
\* stream of the session is also among the writes of the retried stream.
C36_RetryReceivesAllBytes ==
  \A t \in 1..Len(tasks) :
    (tasks[t].phase = "retry" /\ tasks[t].pc \in {"pipe", "blob", "end"}) =>
      LET got == socks[tasks[t].sock].written
      IN /\ \A p \in 1..Len(socks) : \A i \in 1..Len(socks[p].written) :
              socks[p].written[i].seq >= tasks[t].seq =>
                \E j \in 1..Len(got) : got[j] = socks[p].written[i]
         /\ \A j, k \in 1..Len(got) : j < k => got[j].seq < got[k].seq

\* C37: after an admin delete of a user has completed, no session that
\* begins later authenticates with that UUID, for every interleaving of the
\* delete with a concurrent getUserData.
Authenticates(l) ==
  /\ l.pc = "done" /\ l.userData.found
  /\ checkExpiration(l.userData.exp_date, l.userData.exp_time, Now)

C37_DeletedUserRejected ==
  \A i \in 1..Len(lookups) : lookups[i].afterDelete => ~Authenticates(lookups[i])

\* C38: the SOCKS5 dialer of src/index.js sends the CONNECT request only
\* after the server selected no-auth (0x00), or user/pass (0x02) followed by a
\* successful authentication reply; for any other greeting reply no CONNECT
\* is sent.
C38_ConnectOnlyAfterOfferedMethod ==
  \A i \in 1..Len(dialLog) :
    (dialLog[i].variant = "index" /\ dialLog[i].request # <<>>) =>
      \/ dialLog[i].replies[1] = <<5, 0>>
      \/ /\ dialLog[i].replies[1] = <<5, 2>>
         /\ Len(dialLog[i].replies) >= 2 /\ dialLog[i].replies[2] = <<1, 0>>

\* C39: the DNS splitter emits a packet only when its length equals the
\* 16-bit prefix before it, and never raises: the packets emitted for a chunk,
\* each behind its own length, are read off the front of that chunk.
IsPrefixOf(s, t) == Len(s) <= Len(t) /\ SubSeq(t, 1, Len(s)) = s

RECURSIVE SplitOn(_, _)
SplitOn(str, sep) ==
  IF \A i \in 1..Len(str) : str[i] # sep THEN <<str>>
  ELSE LET k == CHOOSE i \in 1..Len(str) :
                  str[i] = sep /\ \A j \in 1..(i - 1) : str[j] # sep
       IN <<SubSeq(str, 1, k - 1)>> \o SplitOn(SubSeq(str, k + 1, Len(str)), sep)

DigitValue(c) == IF c <= 57 THEN c - 48 ELSE c - 87

RECURSIVE FromDigits(_, _)
FromDigits(ds, base) ==
  IF ds = <<>> THEN 0
  ELSE FromDigits(SubSeq(ds, 1, Len(ds) - 1), base) * base + DigitValue(ds[Len(ds)])

AddressBytes(atyp, str) ==
  CASE atyp = 1 -> LET parts == SplitOn(str, Dot)
                   IN [i \in 1..Len(parts) |-> FromDigits(parts[i], 10)]
    [] atyp = 3 -> LET parts == SplitOn(str, Colon)
                   IN Flatten([i \in 1..Len(parts) |->
                                 <<FromDigits(parts[i], 16) \div 256,
                                   FromDigits(parts[i], 16) % 256>>])
    [] OTHER -> str

LowerHexGroups(str) ==
  \A i \in 1..Len(str) : str[i] = Colon \/ (str[i] >= 48 /\ str[i] <= 57)
                                         \/ (str[i] >= 97 /\ str[i] <= 102)

\* --- who is an accepted user ----------------------------------------------
\* index.js: the lookup (cache entry that parses, else the users table)
\* returns a record whose expiry is strictly in the future.
AcceptedIndex(uuidBytes) ==
  LET id == unsafeStringify(uuidBytes)
      cached == id \in DOMAIN InitKV /\ InitKV[id].parses
  IN \/ cached /\ InitKV[id].exp_date > Now /\ InitKV[id].exp_time > 0
     \/ ~cached /\ id \in DOMAIN InitDB
               /\ InitDB[id].exp_date > Now /\ InitDB[id].exp_time > 0

\* part_001: the id is in the configured list.
Accepted001(uuidBytes) ==
  \E i \in 1..Len(ConfiguredUserIDs) : ConfiguredUserIDs[i] = unsafeStringify(uuidBytes)

IsAuthError(res) ==
  res.outcome = "error" /\ res.message \in {"invalid or expired user", "invalid user"}

WellFormed(r) ==
  /\ r.cut = 0 /\ r.cmd \in {1, 2}
  /\ \/ r.atyp = 1 /\ Len(r.addr) = 4
     \/ r.atyp = 2 /\ Len(r.addr) >= 1
     \/ r.atyp = 3 /\ Len(r.addr) = 16

RoundTrip(r, buf, res) ==
  /\ res.outcome = "ok"
  /\ res.ProtocolVersion = r.ver
  /\ res.isUDP = (r.cmd = 2)
  /\ res.portRemote = r.port
  /\ res.addressType = r.atyp
  /\ AddressBytes(r.atyp, res.addressRemote) = r.addr
  /\ (r.atyp = 3 => LowerHexGroups(res.addressRemote)
                    /\ Len(SplitOn(res.addressRemote, Colon)) = 8)
  /\ res.rawDataIndex = Len(buf) - Len(r.payload)
  /\ Slice(buf, res.rawDataIndex, Len(buf)) = r.payload

\* C8: for every buffer of at least 24 bytes, ProcessProtocolHeader reports
\* the authentication error if and only if the 16-byte user id is not an
\* accepted user, in both variants of the worker.
C8_AuthErrorIffNotAccepted ==
  /\ (hres # NoResult /\ Len(hbuf) >= 24) =>
       (IsAuthError(hres) <=> ~AcceptedIndex(hreq.uuid))
  /\ (hres001 # NoResult /\ Len(hbuf) >= 24) =>
       (IsAuthError(hres001) <=> ~Accepted001(hreq.uuid))

\* C9: for every input buffer, ProcessProtocolHeader returns a decoded header
\* or a structured error value and never raises an exception.
C9_NeverRaises ==
  hres.outcome # "throw" /\ hres001.outcome # "throw"

DeclaredDomainLength(buf) == getUint8(buf, 18 + getUint8(buf, 17) + 1 + 3)

C35_FieldsInsideBuffer ==
  (hres # NoResult /\ hres.outcome = "ok") =>
    /\ hres.rawDataIndex <= Len(hbuf)
    /\ hres.addressType = 1 => Len(SplitOn(hres.addressRemote, Dot)) = 4
    /\ hres.addressType = 2 => Len(hres.addressRemote) = DeclaredDomainLength(hbuf)
    /\ hres.addressType = 3 => Len(SplitOn(hres.addressRemote, Colon)) = 8

====
